---- MODULE Spec2Model ----
(***************************************************************************)
(* Model of the translation orchestration core of llm-translate:           *)
(* Translator.Translate, Translator.translateWithRetry,                    *)
(* Translator.validateTranslation and Translator.splitIntoChunks.          *)
(*                                                                         *)
(* A Go string is a sequence of one-character strings.  A Go error is the  *)
(* chain of its layers, outermost first: fmt.Errorf("...: %w", e)          *)
(* prepends one layer to the chain of e, and the nil error is <<>>.        *)
(***************************************************************************)
EXTENDS Integers, Sequences, FiniteSets, TLC

\* ------------------------------------------------------------------------
\* Bounds of the model
\* ------------------------------------------------------------------------

\* largest settings.retry_count explored
MaxRetryCount == 1

\* largest --strong-retries explored
MaxStrongRetries == 2

\* longest bypass list given to shouldBypassProxy on its own
MaxNoProxyLen == 2

\* longest text given to splitIntoChunks on its own
MaxTextLen == 6

\* largest chunk size given to splitIntoChunks on its own
MaxChunkSize == 4

\* ------------------------------------------------------------------------
\* Strings
\* ------------------------------------------------------------------------

SP == " "
NL == "\n"

\* unicode.IsSpace restricted to the characters of the model
IsSpace(c) == c \in {SP, NL}

\* strings.HasPrefix
HasPrefix(s, p) ==
    /\ Len(p) <= Len(s)
    /\ \A k \in 1..Len(p) : s[k] = p[k]

\* s[n:] of Go (0-based n)
DropN(s, n) == [k \in 1..(Len(s) - n) |-> s[k + n]]

\* strings.Contains
Contains(s, sub) ==
    \E n \in 0..(Len(s) - Len(sub)) : \A k \in 1..Len(sub) : s[n + k] = sub[k]

RECURSIVE TrimLeft(_)
TrimLeft(s) ==
    IF s = <<>> THEN <<>>
    ELSE IF IsSpace(Head(s)) THEN TrimLeft(Tail(s)) ELSE s

RECURSIVE TrimRight(_)
TrimRight(s) ==
    IF s = <<>> THEN <<>>
    ELSE IF IsSpace(s[Len(s)]) THEN TrimRight(SubSeq(s, 1, Len(s) - 1)) ELSE s

\* strings.TrimSpace
TrimSpace(s) == TrimRight(TrimLeft(s))

\* strings.Split(s, sep) for a non-empty separator: cut at every
\* non-overlapping occurrence of sep, scanning from the left
RECURSIVE SplitAcc(_, _, _)
SplitAcc(s, sep, cur) ==
    IF s = <<>> THEN <<cur>>
    ELSE IF HasPrefix(s, sep)
         THEN <<cur>> \o SplitAcc(DropN(s, Len(sep)), sep, <<>>)
         ELSE SplitAcc(Tail(s), sep, Append(cur, Head(s)))

Split(s, sep) == SplitAcc(s, sep, <<>>)

\* strings.Fields: the maximal runs of non-space characters
RECURSIVE FieldsAcc(_, _)
FieldsAcc(s, cur) ==
    IF s = <<>> THEN (IF cur = <<>> THEN <<>> ELSE <<cur>>)
    ELSE IF IsSpace(Head(s))
         THEN (IF cur = <<>> THEN <<>> ELSE <<cur>>) \o FieldsAcc(Tail(s), <<>>)
         ELSE FieldsAcc(Tail(s), Append(cur, Head(s)))

Fields(s) == FieldsAcc(s, <<>>)

\* strings.Join
RECURSIVE Join(_, _)
Join(parts, sep) ==
    IF parts = <<>> THEN <<>>
    ELSE IF Len(parts) = 1 THEN parts[1]
    ELSE parts[1] \o sep \o Join(Tail(parts), sep)

\* ------------------------------------------------------------------------
\* Segmenter
\* ------------------------------------------------------------------------

IsTerminator(c) == c \in {".", "!", "?"}

\* splitIntoSentences: a sentence ends after '.', '!' or '?' when the next
\* byte is a space; every piece is trimmed, the rest of the text is the last
RECURSIVE SentencesAcc(_, _, _)
SentencesAcc(text, i, current) ==
    IF i > Len(text)
    THEN (IF Len(current) > 0 THEN <<TrimSpace(current)>> ELSE <<>>)
    ELSE LET cur2 == Append(current, text[i])
         IN  IF IsTerminator(text[i]) /\ i < Len(text) /\ text[i + 1] = SP
             THEN <<TrimSpace(cur2)>> \o SentencesAcc(text, i + 1, <<>>)
             ELSE SentencesAcc(text, i + 1, cur2)

splitIntoSentences(text) == SentencesAcc(text, 1, <<>>)

\* a flush that drops the buffer
FlushDropsBuffer(st) == [chunks |-> st.chunks, cur |-> <<>>]

\* the loop state of splitIntoChunks: the chunks flushed so far and currentChunk
Flush(st) ==
    IF st.cur # <<>>
    THEN [chunks |-> Append(st.chunks, TrimSpace(st.cur)), cur |-> <<>>]
    ELSE st

\* a word loop that forgets the space it puts before the word
WordStepIgnoresSpace(st, word, chunkSize) ==
    IF Len(st.cur) + Len(word) > chunkSize
    THEN [chunks |-> Append(st.chunks, TrimSpace(st.cur)), cur |-> word]
    ELSE [chunks |-> st.chunks,
          cur |-> (IF st.cur # <<>> THEN Append(st.cur, SP) ELSE <<>>) \o word]

\* a word loop that never flushes
WordStepNeverFlushes(st, word, chunkSize) ==
    [chunks |-> st.chunks,
     cur |-> (IF st.cur # <<>> THEN Append(st.cur, SP) ELSE <<>>) \o word]

\* one iteration of the word loop
WordStep(st, word, chunkSize) ==
    IF Len(st.cur) + Len(word) + 1 > chunkSize
    THEN [chunks |-> Append(st.chunks, TrimSpace(st.cur)), cur |-> word]
    ELSE [chunks |-> st.chunks,
          cur |-> (IF st.cur # <<>> THEN Append(st.cur, SP) ELSE <<>>) \o word]

RECURSIVE WordLoop(_, _, _)
WordLoop(st, words, chunkSize) ==
    IF words = <<>> THEN st
    ELSE WordLoop(WordStep(st, Head(words), chunkSize), Tail(words), chunkSize)

\* one iteration of the sentence loop
SentenceStep(st, sentence, chunkSize) ==
    IF Len(st.cur) + Len(sentence) + 1 > chunkSize
    THEN LET st1 == Flush(st)
         IN  IF Len(sentence) > chunkSize
             THEN WordLoop(st1, Fields(sentence), chunkSize)
             ELSE [chunks |-> st1.chunks, cur |-> sentence]
    ELSE [chunks |-> st.chunks,
          cur |-> (IF st.cur # <<>> THEN Append(st.cur, SP) ELSE <<>>) \o sentence]

RECURSIVE SentenceLoop(_, _, _)
SentenceLoop(st, sentences, chunkSize) ==
    IF sentences = <<>> THEN st
    ELSE SentenceLoop(SentenceStep(st, Head(sentences), chunkSize),
                      Tail(sentences), chunkSize)

\* one iteration of the paragraph loop
ParagraphStep(st, paragraph, chunkSize) ==
    IF Len(st.cur) + Len(paragraph) + 2 > chunkSize
    THEN LET st1 == Flush(st)
         IN  IF Len(paragraph) > chunkSize
             THEN SentenceLoop(st1, splitIntoSentences(paragraph), chunkSize)
             ELSE [chunks |-> st1.chunks, cur |-> paragraph]
    ELSE [chunks |-> st.chunks,
          cur |-> (IF st.cur # <<>> THEN st.cur \o <<NL, NL>> ELSE <<>>) \o paragraph]

RECURSIVE ParagraphLoop(_, _, _)
ParagraphLoop(st, paragraphs, chunkSize) ==
    IF paragraphs = <<>> THEN st
    ELSE ParagraphLoop(ParagraphStep(st, Head(paragraphs), chunkSize),
                       Tail(paragraphs), chunkSize)

splitIntoChunks(text, chunkSize) ==
    IF Len(text) <= chunkSize
    THEN <<text>>
    ELSE Flush(ParagraphLoop([chunks |-> <<>>, cur |-> <<>>],
                             Split(text, <<NL, NL>>), chunkSize)).chunks

\* ------------------------------------------------------------------------
\* Validator (package validator)
\* ------------------------------------------------------------------------

Upper == <<"A","B","C","D","E","F","G","H","I","J","K","L","M",
           "N","O","P","Q","R","S","T","U","V","W","X","Y","Z">>
Lower == <<"a","b","c","d","e","f","g","h","i","j","k","l","m",
           "n","o","p","q","r","s","t","u","v","w","x","y","z">>
Digits == <<"0","1","2","3","4","5","6","7","8","9">>

IsUpper(c) == \E k \in 1..Len(Upper) : Upper[k] = c
IsDigit(c) == \E k \in 1..Len(Digits) : Digits[k] = c
ToLowerChar(c) ==
    IF IsUpper(c) THEN Lower[CHOOSE k \in 1..Len(Upper) : Upper[k] = c] ELSE c

\* strings.ToLower
ToLower(s) == [k \in 1..Len(s) |-> ToLowerChar(s[k])]

\* strings.EqualFold
EqualFold(a, b) == ToLower(a) = ToLower(b)

\* strings.HasSuffix
HasSuffix(s, p) ==
    /\ Len(p) <= Len(s)
    /\ \A k \in 1..Len(p) : s[Len(s) - Len(p) + k] = p[k]

\* strings.ReplaceAll for a non-empty old
RECURSIVE ReplaceAll(_, _, _)
ReplaceAll(s, old, new) ==
    IF s = <<>> THEN <<>>
    ELSE IF HasPrefix(s, old)
         THEN new \o ReplaceAll(DropN(s, Len(old)), old, new)
         ELSE <<Head(s)>> \o ReplaceAll(Tail(s), old, new)

\* regexp `\s+` replaced by one space
RECURSIVE CollapseSpace(_)
CollapseSpace(s) ==
    IF s = <<>> THEN <<>>
    ELSE IF IsSpace(Head(s))
         THEN <<SP>> \o CollapseSpace(TrimLeft(s))
         ELSE <<Head(s)>> \o CollapseSpace(Tail(s))

RECURSIVE ReplaceTerms(_, _)
ReplaceTerms(s, terms) ==
    IF terms = <<>> THEN s
    ELSE ReplaceTerms(ReplaceAll(s, Head(terms), <<SP>>), Tail(terms))

\* Validator.cleanTextForValidation, for a configuration without allowed
\* patterns: the allowed terms are blanked, white space is collapsed
cleanTextForValidation(sv, text) ==
    TrimSpace(CollapseSpace(ReplaceTerms(text, sv.AllowedTerms)))

ContainsWords ==
    <<<<"t", "h", "e">>, <<"b", "e">>, <<"t", "o">>, <<"o", "f">>,
      <<"a", "n", "d">>, <<"a">>, <<"i", "n">>, <<"t", "h", "a", "t">>,
      <<"h", "a", "v", "e">>, <<"I">>, <<"i", "t">>, <<"f", "o", "r">>,
      <<"n", "o", "t">>, <<"o", "n">>, <<"w", "i", "t", "h">>, <<"h", "e">>,
      <<"a", "s">>, <<"y", "o", "u">>, <<"d", "o">>, <<"a", "t">>,
      <<"t", "h", "i", "s">>, <<"b", "u", "t">>, <<"h", "i", "s">>, <<"b", "y">>,
      <<"f", "r", "o", "m">>, <<"t", "h", "e", "y">>, <<"w", "e">>, <<"s", "a", "y">>,
      <<"h", "e", "r">>, <<"s", "h", "e">>, <<"o", "r">>, <<"a", "n">>,
      <<"w", "i", "l", "l">>, <<"m", "y">>, <<"o", "n", "e">>, <<"a", "l", "l">>,
      <<"w", "o", "u", "l", "d">>, <<"t", "h", "e", "r", "e">>, <<"t", "h", "e", "i", "r">>, <<"w", "h", "a", "t">>,
      <<"s", "o">>, <<"u", "p">>, <<"o", "u", "t">>, <<"i", "f">>,
      <<"a", "b", "o", "u", "t">>, <<"w", "h", "o">>, <<"g", "e", "t">>, <<"w", "h", "i", "c", "h">>,
      <<"g", "o">>>>

\* one word of the list is counted when the lowered text holds it between
\* spaces, starts with it or ends with it
WordOccurs(textLower, word) ==
    \/ Contains(textLower, <<SP>> \o word \o <<SP>>)
    \/ HasPrefix(textLower, word \o <<SP>>)
    \/ HasSuffix(textLower, <<SP>> \o word)

\* Validator.containsEnglishText: more than three listed words occur
containsEnglishText(text) ==
    LET textLower == ToLower(text)
    IN  Cardinality({k \in 1..Len(ContainsWords) :
                        WordOccurs(textLower, ContainsWords[k])}) > 3

EnglishWords ==
    <<<<"t", "h", "e">>, <<"b", "e">>, <<"t", "o">>, <<"o", "f">>,
      <<"a", "n", "d">>, <<"a">>, <<"i", "n">>, <<"t", "h", "a", "t">>,
      <<"h", "a", "v", "e">>, <<"i", "t">>, <<"f", "o", "r">>, <<"n", "o", "t">>,
      <<"o", "n">>, <<"w", "i", "t", "h">>, <<"a", "s">>, <<"y", "o", "u">>,
      <<"d", "o">>, <<"a", "t">>, <<"t", "h", "i", "s">>, <<"b", "u", "t">>,
      <<"h", "i", "s">>, <<"b", "y">>, <<"f", "r", "o", "m">>, <<"t", "h", "e", "y">>,
      <<"w", "e">>, <<"s", "a", "y">>, <<"h", "e", "r">>, <<"s", "h", "e">>,
      <<"o", "r">>, <<"a", "n">>, <<"w", "i", "l", "l">>, <<"m", "y">>,
      <<"o", "n", "e">>, <<"a", "l", "l">>, <<"w", "o", "u", "l", "d">>, <<"t", "h", "e", "r", "e">>,
      <<"t", "h", "e", "i", "r">>, <<"w", "h", "a", "t">>, <<"s", "o">>, <<"u", "p">>,
      <<"o", "u", "t">>, <<"i", "f">>, <<"a", "b", "o", "u", "t">>, <<"w", "h", "o">>,
      <<"g", "e", "t">>, <<"w", "h", "i", "c", "h">>, <<"g", "o">>, <<"m", "e">>,
      <<"w", "h", "e", "n">>, <<"m", "a", "k", "e">>, <<"c", "a", "n">>, <<"l", "i", "k", "e">>,
      <<"t", "i", "m", "e">>, <<"n", "o">>, <<"j", "u", "s", "t">>, <<"h", "i", "m">>,
      <<"k", "n", "o", "w">>, <<"t", "a", "k", "e">>, <<"p", "e", "o", "p", "l", "e">>, <<"i", "n", "t", "o">>,
      <<"y", "e", "a", "r">>, <<"y", "o", "u", "r">>, <<"g", "o", "o", "d">>, <<"s", "o", "m", "e">>,
      <<"c", "o", "u", "l", "d">>, <<"t", "h", "e", "m">>, <<"s", "e", "e">>, <<"o", "t", "h", "e", "r">>,
      <<"t", "h", "a", "n">>, <<"t", "h", "e", "n">>, <<"n", "o", "w">>, <<"l", "o", "o", "k">>,
      <<"o", "n", "l", "y">>, <<"c", "o", "m", "e">>, <<"i", "t", "s">>, <<"o", "v", "e", "r">>,
      <<"t", "h", "i", "n", "k">>, <<"a", "l", "s", "o">>, <<"b", "a", "c", "k">>, <<"a", "f", "t", "e", "r">>,
      <<"u", "s", "e">>, <<"t", "w", "o">>, <<"h", "o", "w">>, <<"o", "u", "r">>,
      <<"w", "o", "r", "k">>>>

\* Validator.isEnglishWord
isEnglishWord(word) ==
    LET w == ToLower(word)
    IN  \E k \in 1..Len(EnglishWords) : EnglishWords[k] = w

\* Validator.isAllowedWord
isAllowedWord(sv, word) ==
    \/ \E k \in 1..Len(sv.AllowedTerms) : EqualFold(word, sv.AllowedTerms[k])
    \/ (Len(word) >= 1 /\ \A k \in 1..Len(word) : IsDigit(word[k]))
    \/ (Len(word) >= 2 /\ \A k \in 1..Len(word) : IsUpper(word[k]))

\* the flagged words in text order
RECURSIVE FlaggedWords(_, _)
FlaggedWords(sv, words) ==
    IF words = <<>> THEN <<>>
    ELSE (IF /\ Len(Head(words)) > 3
             /\ ~isAllowedWord(sv, Head(words))
             /\ isEnglishWord(Head(words))
          THEN <<Head(words)>> ELSE <<>>) \o FlaggedWords(sv, Tail(words))

\* Validator.extractProblematicFragments: at most five fragments
extractProblematicFragments(sv, cleanedText) ==
    LET fragments == FlaggedWords(sv, Fields(cleanedText))
    IN  IF Len(fragments) > 5 THEN SubSeq(fragments, 1, 5) ELSE fragments

\* Validator.Validate
Validate(sv, text, sourceLang) ==
    LET cleanedText == cleanTextForValidation(sv, text)
    IN  IF ~sv.Enabled THEN [isValid |-> TRUE, fragments |-> <<>>]
        ELSE IF Len(TrimSpace(cleanedText)) < 10
             THEN [isValid |-> TRUE, fragments |-> <<>>]
        ELSE IF sourceLang = "en" /\ containsEnglishText(cleanedText)
             THEN [isValid |-> FALSE,
                   fragments |-> extractProblematicFragments(sv, cleanedText)]
        ELSE [isValid |-> TRUE, fragments |-> <<>>]

\* ------------------------------------------------------------------------
\* Errors and responses
\* ------------------------------------------------------------------------

NoErr == <<>>

Layer(kind, n, msg) == [kind |-> kind, n |-> n, msg |-> msg]

\* fmt.Errorf("<kind> %d ...: %w", n, err)
Wrap(kind, n, err) == <<Layer(kind, n, <<>>)>> \o err

\* an error made by the backend, with its message
BackendError(msg) == <<Layer("backend", 0, msg)>>

\* ctx.Err() of the cancelled context of main.go
ErrCanceled == <<Layer("context canceled", 0, <<>>)>>

\* err.Error() of an error as a backend returns it
RECURSIVE ErrorString(_)
ErrorString(err) ==
    IF err = <<>> THEN <<>> ELSE Head(err).msg \o ErrorString(Tail(err))

\* TranslateResponse{}
EmptyResponse == [Text |-> <<>>, TokensUsed |-> 0]

\* the substrings isRetryableError looks for
RATELIMIT == <<"r", "a", "t", "e", " ", "l", "i", "m", "i", "t">>
S429 == <<"4", "2", "9">>
TIMEOUT == <<"t", "i", "m", "e", "o", "u", "t">>
CONNECTION == <<"c", "o", "n", "n", "e", "c", "t", "i", "o", "n">>
S503 == <<"5", "0", "3">>
S502 == <<"5", "0", "2">>
S500 == <<"5", "0", "0">>

\* the substrings without "500"
RetryableWithout500 ==
    { RATELIMIT, S429, TIMEOUT, CONNECTION, S503, S502 }

RetryableSubstrings ==
    { RATELIMIT, S429, TIMEOUT, CONNECTION, S503, S502, S500 }

\* a classification that retries every error
EveryErrorRetryable(err) == TRUE

isRetryableError(err) ==
    \E sub \in RetryableSubstrings : Contains(ErrorString(err), sub)

\* ------------------------------------------------------------------------
\* Transport and backend registry
\* ------------------------------------------------------------------------

\* the URL "" and its parse
EmptyURL == [Scheme |-> "", Host |-> ""]

EmptyProxyConfig == [URL |-> EmptyURL, Username |-> "", Password |-> "", NoProxy |-> <<>>]

EmptyProviderConfig == [APIKey |-> "", BaseURL |-> "", Model |-> "", Proxy |-> EmptyProxyConfig]

NoClient == [kind |-> "nil", proxy |-> EmptyProxyConfig, auth |-> FALSE, Timeout |-> 0]

NoProvider == [name |-> "", config |-> EmptyProviderConfig, httpClient |-> NoClient]

\* a NewHTTPClient that answers an unknown scheme with a direct client
NewHTTPClientFallsBackDirect(cfg) ==
    IF cfg.URL.Scheme \in {"http", "https"}
    THEN [client |-> [kind |-> "http", proxy |-> cfg,
                      auth |-> (cfg.Username # "" /\ cfg.Password # ""),
                      Timeout |-> 60],
          err |-> NoErr]
    ELSE IF cfg.URL.Scheme \in {"socks5", "socks5h"}
    THEN [client |-> [kind |-> "socks5", proxy |-> cfg,
                      auth |-> (cfg.Username # "" /\ cfg.Password # ""),
                      Timeout |-> 60],
          err |-> NoErr]
    ELSE [client |-> [kind |-> "direct", proxy |-> EmptyProxyConfig, auth |-> FALSE,
                      Timeout |-> 60],
          err |-> NoErr]

\* proxy.NewHTTPClient
NewHTTPClient(cfg) ==
    IF cfg.URL = EmptyURL
    THEN [client |-> [kind |-> "direct", proxy |-> EmptyProxyConfig, auth |-> FALSE,
                      Timeout |-> 60],
          err |-> NoErr]
    ELSE LET auth == cfg.Username # "" /\ cfg.Password # ""
         IN  IF cfg.URL.Scheme \in {"http", "https"}
             THEN [client |-> [kind |-> "http", proxy |-> cfg, auth |-> auth,
                               Timeout |-> 60],
                   err |-> NoErr]
             ELSE IF cfg.URL.Scheme \in {"socks5", "socks5h"}
             THEN [client |-> [kind |-> "socks5", proxy |-> cfg, auth |-> auth,
                               Timeout |-> 60],
                   err |-> NoErr]
             ELSE [client |-> NoClient,
                   err |-> <<Layer("unsupported proxy scheme", 0, <<>>)>>]

STAR == "*"
DOT == "."
BACKSLASH == "\\"

\* matchPattern: the pattern is rewritten as a regular expression would be
\* written, and the rewritten text is compared as a prefix and as a suffix
matchPattern(text, pattern) ==
    LET p1 == ReplaceAll(pattern, <<DOT>>, <<BACKSLASH, DOT>>)
        p2 == ReplaceAll(p1, <<STAR>>, <<DOT, STAR>>)
    IN  HasPrefix(text, p2) \/ HasSuffix(text, p2)

\* a pattern of the list that keeps its case
NormalizeKeepsCase(pattern) == TrimSpace(pattern)

\* line 94: the pattern as the loop tests it
NormalizePattern(pattern) == ToLower(TrimSpace(pattern))

\* one iteration of the loop of shouldBypassProxy returns true; the test of
\* lines 120 to 124 repeats host == pattern for IP literals and adds nothing
PatternBypasses(host, pattern) ==
    /\ pattern # <<>>
    /\ \/ pattern = <<STAR>>
       \/ (HasPrefix(pattern, <<STAR, DOT>>) /\ HasSuffix(host, DropN(pattern, 2)))
       \/ (Contains(pattern, <<STAR>>) /\ matchPattern(host, pattern))
       \/ (~Contains(pattern, <<STAR>>) /\ host = pattern)

\* proxy.shouldBypassProxy
shouldBypassProxy(host, noProxyList) ==
    IF Len(noProxyList) = 0 THEN FALSE
    ELSE \E k \in 1..Len(noProxyList) :
            PatternBypasses(ToLower(host), NormalizePattern(noProxyList[k]))

COLON == ":"

\* url.URL.Host of a request to host and port: the port, when the URL names
\* one, is part of it
URLHost(host, port) == IF port = <<>> THEN host ELSE host \o <<COLON>> \o port

\* the address http.Transport dials for a request to host and port over
\* http: the port of the scheme when the URL names none
DialAddr(host, port) == host \o <<COLON>> \o (IF port = <<>> THEN <<"8", "0">> ELSE port)

\* the host that lines 61 to 64 take from addr: net.SplitHostPort cuts at the
\* last colon, and addr stays whole when it has none (the hosts of the model
\* have no brackets and no colon of their own)
SplitHost(addr) ==
    LET colons == { k \in 1..Len(addr) : addr[k] = COLON }
    IN  IF colons = {} THEN addr
        ELSE SubSeq(addr, 1, (CHOOSE k \in colons : \A j \in colons : j <= k) - 1)

\* lines 41 to 46: transport.Proxy of the client for an http or https proxy
\* returns no proxy for the request
ProxyFuncBypasses(host, port, noProxy) ==
    shouldBypassProxy(URLHost(host, port), noProxy)

\* lines 60 to 74: transport.DialContext of the client for a SOCKS5 proxy
\* dials addr itself
DialContextBypasses(host, port, noProxy) ==
    shouldBypassProxy(SplitHost(DialAddr(host, port)), noProxy)

\* a createHTTPClient that takes the global proxy whenever it has a URL
createHTTPClientPrefersGlobal(cfg) ==
    LET providerCfg == IF cfg.DefaultProvider \in DOMAIN cfg.Providers
                       THEN cfg.Providers[cfg.DefaultProvider]
                       ELSE EmptyProviderConfig
        proxyCfg == IF cfg.Proxy.URL = EmptyURL THEN providerCfg.Proxy
                    ELSE cfg.Proxy
    IN  IF proxyCfg.URL # EmptyURL
        THEN NewHTTPClient(proxyCfg)
        ELSE [client |-> [kind |-> "direct", proxy |-> EmptyProxyConfig, auth |-> FALSE,
                          Timeout |-> cfg.Settings.Timeout],
              err |-> NoErr]

\* Translator.createHTTPClient
createHTTPClient(cfg) ==
    LET providerCfg == IF cfg.DefaultProvider \in DOMAIN cfg.Providers
                       THEN cfg.Providers[cfg.DefaultProvider]
                       ELSE EmptyProviderConfig
        proxyCfg == IF providerCfg.Proxy.URL = EmptyURL THEN cfg.Proxy
                    ELSE providerCfg.Proxy
    IN  IF proxyCfg.URL # EmptyURL
        THEN NewHTTPClient(proxyCfg)
        ELSE [client |-> [kind |-> "direct", proxy |-> EmptyProxyConfig, auth |-> FALSE,
                          Timeout |-> cfg.Settings.Timeout],
              err |-> NoErr]

\* the backends of the registry that the model configures
Registered == {"openai", "ollama"}

\* NewOpenAIProvider and NewOllamaProvider: the constructor fills in the
\* model and the base URL when the configuration leaves them empty
Factory(name, cfg, client) ==
    [name |-> name,
     config |-> [cfg EXCEPT !.Model = IF cfg.Model = "" THEN "default" ELSE cfg.Model,
                            !.BaseURL = IF cfg.BaseURL = "" THEN "default"
                                        ELSE cfg.BaseURL],
     httpClient |-> client]

\* BaseProvider.ValidateConfig, and OllamaProvider.ValidateConfig for ollama
ValidateConfig(p) ==
    IF p.config.BaseURL = "" THEN <<Layer("base URL is required", 0, <<>>)>>
    ELSE IF p.name # "ollama" /\ p.config.APIKey = ""
    THEN <<Layer("API key is required", 0, <<>>)>>
    ELSE NoErr

\* a Get that hands out the backend whatever its validation says
GetSkipsValidation(name, cfg, client) ==
    IF name \notin Registered
    THEN [provider |-> NoProvider, err |-> <<Layer("unknown provider", 0, <<>>)>>,
          steps |-> <<>>]
    ELSE [provider |-> Factory(name, cfg, client), err |-> NoErr,
          steps |-> <<"factory">>]

\* provider.Get; steps are the calls it makes, in order
Get(name, cfg, client) ==
    IF name \notin Registered
    THEN [provider |-> NoProvider, err |-> <<Layer("unknown provider", 0, <<>>)>>,
          steps |-> <<>>]
    ELSE LET p == Factory(name, cfg, client)
             verr == ValidateConfig(p)
         IN  IF verr # NoErr
             THEN [provider |-> NoProvider, err |-> verr,
                   steps |-> <<"factory", "ValidateConfig">>]
             ELSE [provider |-> p, err |-> NoErr,
                   steps |-> <<"factory", "ValidateConfig">>]

\* ------------------------------------------------------------------------
\* Inputs of the model
\* ------------------------------------------------------------------------

\* chunk size of the modelled configurations (settings.chunk_size)
SmallChunkSize == 8

DOC1 == <<"h", "e", "l", "l", "o">>
DOC2 == <<"h", "e", "l", "l", "o", "\n", "\n", "w", "o", "r", "l", "d">>
DOC3 == <<"h", "e", "l", "l", "o", "\n", "\n", "w", "o", "r", "l", "d", "\n", "\n", "a", "g", "a", "i", "n">>
OUT_OK == <<"b", "o", "n", "j", "o", "u", "r", " ", "l", "e", " ", "m", "o", "n", "d", "e">>
OUT_EN == <<"t", "h", "i", "s", " ", "t", "h", "a", "t", " ", "w", "i", "t", "h", " ", "f", "r", "o", "m">>
OUT_SHORT == <<"t", "o", " ", "b", "e", " ", "o", "r", " ", "n", "o", "t">>
MSG_429 == <<"s", "t", "a", "t", "u", "s", " ", "4", "2", "9">>
MSG_TIMEOUT == <<"t", "i", "m", "e", "o", "u", "t">>
MSG_KEY == <<"i", "n", "v", "a", "l", "i", "d", " ", "a", "p", "i", " ", "k", "e", "y">>

\* documents of one, two and three chunks at SmallChunkSize
Docs ==
    { DOC1,
      DOC2,
      DOC3 }

\* what a backend answers: a translation, a text left in English whose long
\* words get flagged, and a text of short English words only
Responses ==
    { [Text |-> OUT_OK, TokensUsed |-> 5],
      [Text |-> OUT_EN, TokensUsed |-> 7],
      [Text |-> OUT_SHORT, TokensUsed |-> 3] }

\* the messages of the errors a backend returns
BackendMessages ==
    { MSG_429,
      MSG_TIMEOUT,
      MSG_KEY }

GoodProvider == [APIKey |-> "key", BaseURL |-> "https://api", Model |-> "m",
                 Proxy |-> EmptyProxyConfig]

HTTPProxy == [URL |-> [Scheme |-> "http", Host |-> "proxy:8080"], Username |-> "",
              Password |-> "", NoProxy |-> <<>>]

BaseConfig ==
    [DefaultProvider |-> "openai",
     Settings |-> [ChunkSize |-> SmallChunkSize, RetryCount |-> 1, RetryDelay |-> 1,
                   Timeout |-> 60],
     StrongValidation |-> [Enabled |-> TRUE, AllowedTerms |-> <<>>],
     Proxy |-> EmptyProxyConfig,
     Providers |-> [n \in {"openai"} |-> GoodProvider]]

BaseRequest ==
    [Text |-> DOC1, SourceLang |-> "en", TargetLang |-> "fr",
     Context |-> "", StrongMode |-> TRUE, StrongRetries |-> 1]

\* strong-mode runs: every retry count and strong-retry budget, documents of
\* one and two chunks
StrongInputs ==
    { [config |-> [BaseConfig EXCEPT !.Settings.RetryCount = rc],
       req |-> [BaseRequest EXCEPT !.Text = d, !.StrongRetries = sr]] :
        rc \in 0..MaxRetryCount, d \in {DOC1, DOC2}, sr \in 0..MaxStrongRetries }

\* runs without strong mode: every retry count and document
PlainInputs ==
    { [config |-> [BaseConfig EXCEPT !.Settings.RetryCount = rc],
       req |-> [BaseRequest EXCEPT !.Text = d, !.StrongMode = FALSE]] :
        rc \in 0..MaxRetryCount, d \in Docs }

\* runs that vary the retry delay, and a run of four retries
DelayInputs ==
    { [config |-> [BaseConfig EXCEPT !.Settings.RetryCount = 0,
                                     !.Settings.RetryDelay = rd],
       req |-> [BaseRequest EXCEPT !.StrongMode = FALSE]] : rd \in {0, 2} }
    \cup
    { [config |-> [BaseConfig EXCEPT !.Settings.RetryCount = 4,
                                     !.Settings.RetryDelay = 1],
       req |-> [BaseRequest EXCEPT !.StrongMode = FALSE]] }

\* runs that vary the validator's switch and the source language
ValidatorInputs ==
    { [config |-> [BaseConfig EXCEPT !.StrongValidation.Enabled = en],
       req |-> [BaseRequest EXCEPT !.SourceLang = sl]] :
        en \in BOOLEAN, sl \in {"en", "auto"} }

\* the set-ups: the proxy, the backend's name and its configuration vary
SetupInputs ==
    { [config |-> [BaseConfig EXCEPT !.Proxy = px, !.DefaultProvider = dp,
                                     !.Providers = [n \in names |-> pc0]],
       req |-> [BaseRequest EXCEPT !.StrongMode = FALSE]] :
        px \in { EmptyProxyConfig, HTTPProxy,
                 [HTTPProxy EXCEPT !.URL.Scheme = "socks5"],
                 [HTTPProxy EXCEPT !.URL.Scheme = "ftp"] },
        dp \in {"openai", "ollama", "deepl"},
        names \in { {"openai"}, {"openai", "ollama", "deepl"} },
        pc0 \in { GoodProvider, [GoodProvider EXCEPT !.APIKey = ""] } }

\* a second proxy, with credentials and a bypass list of its own
SOCKSProxy == [URL |-> [Scheme |-> "socks5", Host |-> "socks:1080"], Username |-> "u",
               Password |-> "p", NoProxy |-> <<"localhost">>]

\* the set-ups whose backend has a proxy override: with a URL, and without a
\* URL but with credentials and a bypass list
OverrideInputs ==
    { [config |-> [BaseConfig EXCEPT !.Proxy = px,
                                     !.Providers = [n \in {"openai"} |->
                                         [GoodProvider EXCEPT !.Proxy = ov]]],
       req |-> [BaseRequest EXCEPT !.StrongMode = FALSE]] :
        px \in { EmptyProxyConfig, HTTPProxy },
        ov \in { SOCKSProxy, [SOCKSProxy EXCEPT !.URL = EmptyURL],
                 [SOCKSProxy EXCEPT !.URL.Scheme = "ftp"] } }

\* a run whose retry count is below zero: Settings.RetryCount is an int that
\* nothing validates
NegativeRetryInputs ==
    { [config |-> [BaseConfig EXCEPT !.Settings.RetryCount = -1],
       req |-> [BaseRequest EXCEPT !.StrongMode = FALSE]] }

\* a run whose strong-retry budget is below zero: --strong-retries is an int
\* flag that nothing validates
NegativeStrongInputs ==
    { [config |-> BaseConfig, req |-> [BaseRequest EXCEPT !.StrongRetries = -1]] }

Inputs == StrongInputs \cup PlainInputs \cup DelayInputs \cup ValidatorInputs
            \cup SetupInputs \cup NegativeRetryInputs \cup OverrideInputs
            \cup NegativeStrongInputs

\* ------------------------------------------------------------------------
\* State
\* ------------------------------------------------------------------------

VARIABLES
    config,           \* t.config
    req,              \* the TranslateRequest of the call
    ctxDone,          \* the context of the call is cancelled
    pc,               \* where the call is: "start", "call", "wait", "execRet", "done"
    client,           \* t.client
    provider,         \* t.provider
    chunks,           \* Translate: chunks
    i,                \* Translate: number of the chunk in work, from 1
    results,          \* Translate: results
    totalTokens,      \* Translate: totalTokens
    resp,             \* Translate: resp of line 238
    translatedChunk,  \* Translate: translatedChunk
    err,              \* Translate: err of line 246
    retry,            \* Translate: retry of line 252
    frame,            \* the activation of translateWithRetry
    ret,              \* what translateWithRetry returned
    out,              \* what Translate returned
    hist,             \* history of the call, read by the properties only
    called,           \* a helper function called on its own, with its arguments
    returned,         \* what that call returned
    calls             \* two calls of Translate on one Translator, side by side

vars == <<config, req, ctxDone, pc, client, provider, chunks, i, results,
          totalTokens, resp, translatedChunk, err, retry, frame, ret, out, hist,
          called, returned, calls>>

inputs == <<config, req>>
setup == <<client, provider, chunks>>
locals == <<i, results, totalTokens, resp, translatedChunk, err, retry>>
helper == <<called, returned>>

\* one of the two calls: its position, its text and its locals; clientOf is
\* the call that built the client its backend was given, usedOf are the calls
\* that built the backends its backend calls went to
IdleCall == [pc |-> "idle", text |-> <<>>, client |-> NoClient, p |-> NoProvider,
             chunks |-> <<>>, i |-> 0, clientOf |-> 0, usedOf |-> <<>>,
             err |-> NoErr]

\* no calls side by side; clientBy and providerBy are the calls that stored
\* t.client and t.provider last
NoCalls == [clientBy |-> 0, providerBy |-> 0, c |-> [k \in 1..2 |-> IdleCall]]

\* no helper call: Translate is the call in work
NoCall == [fn |-> "", text |-> <<>>, n |-> 0, list |-> <<>>,
           cfg |-> EmptyProxyConfig, port |-> <<>>]
NoResult == [done |-> FALSE, bool |-> FALSE, list |-> <<>>,
             client |-> NoClient, err |-> NoErr]

NoFrame == [caller |-> "", req |-> [Text |-> <<>>, Context |-> ""], attempt |-> 0,
            retryCount |-> 0, lastErr |-> NoErr]

NoCancel == [pc |-> "", exec |-> 0, execCalls |-> 0, nCalls |-> 0, nStrong |-> 0]

NoOutcome == [exec |-> 0, attempt |-> 0, ok |-> FALSE, resp |-> EmptyResponse,
              err |-> NoErr]

InitHist ==
    [nCalls |-> 0,         \* backend calls of the call
     execId |-> 0,         \* activations of translateWithRetry so far
     execCalls |-> 0,      \* backend calls of the current activation
     execWaits |-> <<>>,   \* delays waited out in the current activation, seconds
     lastOutcome |-> NoOutcome,
                           \* the latest backend call: its activation, attempt, result
     lastCallChunk |-> 0,  \* the chunk of the latest backend call
     cancel |-> NoCancel,  \* where the cancellation fired
     accepted |-> <<>>,    \* per accepted chunk: index, the response accepted and
                           \* the backend response its text came from
     nValidate |-> 0,      \* consultations of Validator.Validate
     nStrong |-> 0,        \* re-translation requests for the chunk in work
     firstOK |-> TRUE,     \* validateTranslation accepted the chunk's first output
     passedAt |-> 0,       \* the strong retry whose output validateTranslation accepted
     failedChunk |-> 0,    \* the chunk at which Translate returned an error
     nGet |-> 0,           \* calls of provider.Get
     getSteps |-> <<>>,    \* the calls the latest provider.Get made
     nCreate |-> 0,        \* calls of createHTTPClient
     usedProviders |-> {}] \* the values of t.provider the backend calls went to

Init ==
    /\ \E in \in Inputs : config = in.config /\ req = in.req
    /\ ctxDone = FALSE
    /\ pc = "start"
    /\ client = NoClient
    /\ provider = NoProvider
    /\ chunks = <<>>
    /\ i = 0
    /\ results = <<>>
    /\ totalTokens = 0
    /\ resp = EmptyResponse
    /\ translatedChunk = <<>>
    /\ err = NoErr
    /\ retry = 0
    /\ frame = NoFrame
    /\ ret = [resp |-> EmptyResponse, err |-> NoErr]
    /\ out = [resp |-> EmptyResponse, err |-> NoErr]
    /\ hist = InitHist
    /\ called = NoCall
    /\ returned = NoResult
    /\ calls = NoCalls

\* ------------------------------------------------------------------------
\* translateWithRetry
\* ------------------------------------------------------------------------

\* the retry count when the configuration leaves it 0
DefaultRetryCount == 3

\* the delay in seconds when the configuration leaves it 0
DefaultRetryDelay == 1

\* retryCount of translateWithRetry
EffectiveRetryCount(cfg) ==
    IF cfg.Settings.RetryCount = 0 THEN DefaultRetryCount ELSE cfg.Settings.RetryCount

\* an attempt loop that runs once more than the retry count allows
AttemptAllowedOnceMore(attempt, retryCount) == attempt <= retryCount + 1

\* the condition of the attempt loop
AttemptAllowed(attempt, retryCount) == attempt <= retryCount

RECURSIVE Pow2(_)
Pow2(n) == IF n <= 0 THEN 1 ELSE 2 * Pow2(n - 1)

\* a delay that grows by the base delay per attempt
LinearBackoffDelay(cfg, attempt) ==
    LET delay == IF cfg.Settings.RetryDelay = 0 THEN DefaultRetryDelay
                 ELSE cfg.Settings.RetryDelay
    IN  delay * attempt

\* the delay before attempt, in seconds
BackoffDelay(cfg, attempt) ==
    LET delay == IF cfg.Settings.RetryDelay = 0 THEN DefaultRetryDelay
                 ELSE cfg.Settings.RetryDelay
    IN  delay * Pow2(attempt - 1)

\* an exhaustion error that names the attempts made instead of the retries
ExhaustedErrorCountsAttempts(retryCount, lastErr) ==
    <<[kind |-> "failed after retries", n |-> retryCount + 1, msg |-> <<>>]>> \o lastErr

\* the error once the attempt loop ends
ExhaustedError(retryCount, lastErr) == Wrap("failed after retries", retryCount, lastErr)

\* what a failed attempt returns at once, unless it is to be retried
FatalReturn(e) == [resp |-> EmptyResponse, err |-> e]

\* a backoff that reports the cancellation as an exhaustion
CancelReturnsExhausted ==
    [resp |-> EmptyResponse,
     err |-> <<[kind |-> "failed after retries", n |-> 0, msg |-> <<>>]>>]

\* what the select of the backoff returns for a cancelled context
CancelReturn == [resp |-> EmptyResponse, err |-> ErrCanceled]

\* a successful attempt that drops the usage of the response
SuccessReturnWithoutUsage(r) == [resp |-> [r EXCEPT !.TokensUsed = 0], err |-> NoErr]

\* what a successful attempt returns
SuccessReturn(r) == [resp |-> r, err |-> NoErr]

\* translateWithRetry is entered by caller with request xreq; h is the history
Enter(caller, xreq, h) ==
    LET retryCount == EffectiveRetryCount(config)
    IN  /\ frame' = [caller |-> caller, req |-> xreq, attempt |-> 0,
                     retryCount |-> retryCount, lastErr |-> NoErr]
        /\ hist' = [h EXCEPT !.execId = @ + 1, !.execCalls = 0, !.execWaits = <<>>,
                             !.nStrong = IF caller = "strong" THEN @ + 1 ELSE 0,
                             !.firstOK = IF caller = "strong" THEN @ ELSE TRUE,
                             !.passedAt = IF caller = "strong" THEN @ ELSE 0]
        /\ IF AttemptAllowed(0, retryCount)
           THEN pc' = "call" /\ ret' = ret
           ELSE /\ pc' = "execRet"
                /\ ret' = [resp |-> EmptyResponse,
                           err |-> ExhaustedError(retryCount, NoErr)]

\* the context was cancelled before the backend call in work began: every
\* provider binds its request or its command to ctx, so such a call fails
BegunCancelled ==
    /\ ctxDone
    /\ ~(hist.cancel.pc = "call" /\ hist.cancel.nCalls = hist.nCalls)

\* t.provider.Translate returns a response: the attempt returns it
BackendSucceeds ==
    /\ pc = "call"
    /\ ~BegunCancelled
    /\ \E r \in Responses :
        /\ ret' = SuccessReturn(r)
        /\ hist' = [hist EXCEPT !.nCalls = @ + 1, !.execCalls = @ + 1,
                       !.lastCallChunk = i,
                       !.usedProviders = @ \cup {provider},
                       !.lastOutcome = [exec |-> hist.execId, attempt |-> frame.attempt,
                                        ok |-> TRUE, resp |-> r, err |-> NoErr]]
    /\ pc' = "execRet"
    /\ UNCHANGED <<helper, calls, inputs, ctxDone, setup, locals, frame, out>>

\* t.provider.Translate returns an error: it is returned when it is not
\* retryable, otherwise the next attempt waits, or the attempts are used up
BackendFails ==
    /\ pc = "call"
    /\ \E m \in BackendMessages :
        LET e == BackendError(m)
        IN  /\ hist' = [hist EXCEPT !.nCalls = @ + 1, !.execCalls = @ + 1,
                           !.lastCallChunk = i,
                           !.usedProviders = @ \cup {provider},
                           !.lastOutcome = [exec |-> hist.execId,
                                            attempt |-> frame.attempt, ok |-> FALSE,
                                            resp |-> EmptyResponse, err |-> e]]
            /\ IF ~isRetryableError(e)
               THEN /\ ret' = FatalReturn(e)
                    /\ frame' = [frame EXCEPT !.lastErr = e]
                    /\ pc' = "execRet"
               ELSE IF AttemptAllowed(frame.attempt + 1, frame.retryCount)
               THEN /\ frame' = [frame EXCEPT !.lastErr = e, !.attempt = @ + 1]
                    /\ pc' = "wait"
                    /\ ret' = ret
               ELSE /\ frame' = [frame EXCEPT !.lastErr = e, !.attempt = @ + 1]
                    /\ ret' = [resp |-> EmptyResponse,
                               err |-> ExhaustedError(frame.retryCount, e)]
                    /\ pc' = "execRet"
    /\ UNCHANGED <<helper, calls, inputs, ctxDone, setup, locals, out>>

\* the select of the backoff: the timer fires first
TimerFires ==
    /\ pc = "wait"
    /\ ~ctxDone
    /\ hist' = [hist EXCEPT !.execWaits = Append(@, BackoffDelay(config, frame.attempt))]
    /\ pc' = "call"
    /\ UNCHANGED <<helper, calls, inputs, ctxDone, setup, locals, frame, ret, out>>

\* the select of the backoff: the context is done
ContextDone ==
    /\ pc = "wait"
    /\ ctxDone
    /\ ret' = CancelReturn
    /\ pc' = "execRet"
    /\ UNCHANGED <<helper, calls, inputs, ctxDone, setup, locals, frame, out, hist>>

\* the caller of Translate cancels the context
Cancel ==
    /\ pc # "done"
    /\ ~ctxDone
    /\ ctxDone' = TRUE
    /\ hist' = [hist EXCEPT !.cancel = [pc |-> pc, exec |-> hist.execId,
                                        execCalls |-> hist.execCalls,
                                        nCalls |-> hist.nCalls,
                                        nStrong |-> hist.nStrong]]
    /\ UNCHANGED <<helper, calls, inputs, pc, setup, locals, frame, ret, out>>

\* ------------------------------------------------------------------------
\* Translate
\* ------------------------------------------------------------------------

\* Translator.validateTranslation: the text to use, or an error
validateTranslation(sv, translated, rq) ==
    IF ~rq.StrongMode THEN [text |-> translated, err |-> NoErr]
    ELSE LET v == Validate(sv, translated, rq.SourceLang)
         IN  IF ~v.isValid /\ Len(v.fragments) > 0
             THEN [text |-> <<>>,
                   err |-> <<Layer("found source language text", 0,
                                   Join(v.fragments, <<",", SP>>))>>]
             ELSE [text |-> translated, err |-> NoErr]

\* providerReq of the chunk, and retryReq with the guidance as its context
ProviderRequest(chunk) == [Text |-> chunk, Context |-> req.Context]
RetryRequest(chunk) == [Text |-> chunk, Context |-> "retranslate"]

\* a strong-retry loop that stops one re-translation short
StrongLoopStopsEarly(k, strongRetries) == k < strongRetries

\* the condition of the strong-retry loop
StrongLoopContinues(k, strongRetries) == k <= strongRetries

\* the err that line 278 tests after the loop: the loop body declares its own
\* err on line 263, so the assignments of line 268 never reach the err of
\* line 246, which line 278 reads
LoopExitErr(outerErr, innerErr) == outerErr

\* the error of line 279
StrongValidationError(strongRetries) ==
    <<Layer("strong validation failed after retries", strongRetries, <<>>)>>

\* an error return that keeps the text and the usage gathered so far
PartialResponse(rs, tokens) == [Text |-> Join(rs, <<NL, NL>>), TokensUsed |-> tokens]

\* the response that goes with an error
FailResponse(rs, tokens) == EmptyResponse

\* a join with a single newline
FinalTextSingleNewline(rs) == Join(rs, <<NL>>)

\* finalText of line 290
FinalText(rs) == Join(rs, <<NL, NL>>)

\* Translate returns the error e
Fail(e, h) ==
    /\ pc' = "done"
    /\ out' = [resp |-> FailResponse(results, totalTokens), err |-> e]
    /\ hist' = [h EXCEPT !.failedChunk = i]
    /\ UNCHANGED <<results, totalTokens, i, frame, ret>>

\* a total that keeps the usage of the latest chunk only
KeepLatestTokens(total, r) == r.TokensUsed

\* line 287: totalTokens += resp.TokensUsed
AddTokens(total, r) == total + r.TokensUsed

\* lines 286 to 299: the chunk's text tc is appended with the tokens of r,
\* and the next chunk is sent, or the joined text is returned; a is the
\* backend response that tc was validated from
Accept(tc, r, a, h) ==
    LET h2 == [h EXCEPT !.accepted = Append(@, [chunk |-> i,
                                                resp |-> [r EXCEPT !.Text = tc],
                                                from |-> a])]
    IN  /\ results' = Append(results, tc)
        /\ totalTokens' = AddTokens(totalTokens, r)
        /\ IF i < Len(chunks)
           THEN /\ i' = i + 1
                /\ Enter("main", ProviderRequest(chunks[i + 1]), h2)
                /\ out' = out
           ELSE /\ pc' = "done"
                /\ out' = [resp |-> [Text |-> FinalText(Append(results, tc)),
                                     TokensUsed |-> AddTokens(totalTokens, r)],
                           err |-> NoErr]
                /\ hist' = h2
                /\ UNCHANGED <<i, frame, ret>>

\* lines 278 to 283, after the strong-retry loop
AfterStrongLoop(outerErr, innerErr, tc, r, a, h) ==
    IF LoopExitErr(outerErr, innerErr) # NoErr
    THEN Fail(StrongValidationError(req.StrongRetries), h)
    ELSE Accept(tc, r, a, h)

\* the head of the strong-retry loop with retry = k
StrongLoop(k, outerErr, innerErr, tc, r, a, h) ==
    /\ retry' = k
    /\ IF StrongLoopContinues(k, req.StrongRetries)
       THEN /\ Enter("strong", RetryRequest(chunks[i]), h)
            /\ UNCHANGED <<results, totalTokens, i, out>>
       ELSE AfterStrongLoop(outerErr, innerErr, tc, r, a, h)

\* Translate up to the first backend call: the transport, the backend, the chunks
TranslateBegin ==
    /\ pc = "start"
    /\ LET c == createHTTPClient(config)
           g == Get(config.DefaultProvider, config.Providers[config.DefaultProvider],
                    c.client)
           cs == splitIntoChunks(req.Text, config.Settings.ChunkSize)
           hc == [hist EXCEPT !.nCreate = @ + 1]
           hg == [hc EXCEPT !.nGet = @ + 1, !.getSteps = g.steps]
       IN  IF c.err # NoErr
           THEN /\ Fail(Wrap("failed to create HTTP client", 0, c.err), hc)
                /\ UNCHANGED <<client, provider, chunks>>
           ELSE IF config.DefaultProvider \notin DOMAIN config.Providers
           THEN /\ client' = c.client
                /\ Fail(<<Layer("provider not configured", 0, <<>>)>>, hc)
                /\ UNCHANGED <<provider, chunks>>
           ELSE IF g.err # NoErr
           THEN /\ client' = c.client
                /\ Fail(Wrap("failed to initialize provider", 0, g.err), hg)
                /\ UNCHANGED <<provider, chunks>>
           ELSE /\ client' = c.client
                /\ provider' = g.provider
                /\ chunks' = cs
                /\ UNCHANGED <<results, totalTokens>>
                /\ IF cs = <<>>
                   THEN /\ pc' = "done"
                        /\ out' = [resp |-> [Text |-> FinalText(<<>>), TokensUsed |-> 0],
                                   err |-> NoErr]
                        /\ hist' = hg
                        /\ UNCHANGED <<i, frame, ret>>
                   ELSE /\ i' = 1
                        /\ Enter("main", ProviderRequest(cs[1]), hg)
                        /\ out' = out
    /\ UNCHANGED <<helper, calls, inputs, ctxDone, resp, translatedChunk, err, retry>>

\* a Translate that validates every request
StrongModeAlwaysOn(rq) == TRUE

\* line 245: if req.StrongMode
StrongModeOn(rq) == rq.StrongMode

\* lines 238 to 287: translateWithRetry returned for the chunk's first request
MainReturn ==
    /\ pc = "execRet"
    /\ frame.caller = "main"
    /\ IF ret.err # NoErr
       THEN /\ Fail(Wrap("failed to translate chunk", i, ret.err), hist)
            /\ UNCHANGED <<resp, translatedChunk, err, retry>>
       ELSE /\ resp' = ret.resp
            /\ IF StrongModeOn(req)
               THEN LET v == validateTranslation(config.StrongValidation,
                                                 ret.resp.Text, req)
                        h == [hist EXCEPT !.nValidate = @ + 1,
                                          !.firstOK = (v.err = NoErr)]
                    IN  /\ err' = v.err
                        /\ IF v.err # NoErr
                           THEN /\ translatedChunk' = ret.resp.Text
                                /\ StrongLoop(1, v.err, v.err, ret.resp.Text, ret.resp,
                                           ret.resp, h)
                           ELSE /\ translatedChunk' = v.text
                                /\ retry' = retry
                                /\ Accept(v.text, ret.resp, ret.resp, h)
               ELSE /\ translatedChunk' = ret.resp.Text
                    /\ UNCHANGED <<err, retry>>
                    /\ Accept(ret.resp.Text, ret.resp, ret.resp, hist)
    /\ UNCHANGED <<helper, calls, inputs, ctxDone, setup>>

\* a failed re-translation that uses up two slots
SkipsSlotAfterFailure(k) == k + 2

\* lines 264 to 266: continue, and retry++ of line 252
NextSlotAfterFailure(k) == k + 1

\* lines 263 to 276: translateWithRetry returned for a re-translation request
StrongReturn ==
    /\ pc = "execRet"
    /\ frame.caller = "strong"
    /\ IF ret.err # NoErr
       THEN /\ translatedChunk' = translatedChunk
            /\ StrongLoop(NextSlotAfterFailure(retry), err, ret.err, translatedChunk,
                          resp, resp, hist)
       ELSE LET v == validateTranslation(config.StrongValidation, ret.resp.Text, req)
                h == [hist EXCEPT !.nValidate = @ + 1]
            IN  IF v.err = NoErr
                THEN /\ translatedChunk' = v.text
                     /\ retry' = retry
                     /\ AfterStrongLoop(err, v.err, v.text, resp, ret.resp,
                                        [h EXCEPT !.passedAt = retry])
                ELSE /\ translatedChunk' = translatedChunk
                     /\ StrongLoop(retry + 1, err, v.err, translatedChunk, resp, resp, h)
    /\ UNCHANGED <<helper, calls, inputs, ctxDone, setup, resp, err>>

Next ==
    \/ TranslateBegin
    \/ BackendSucceeds
    \/ BackendFails
    \/ TimerFires
    \/ ContextDone
    \/ MainReturn
    \/ StrongReturn
    \/ Cancel

Spec == Init /\ [][Next]_vars

\* the control points of Translate
ControlPoints == {"start", "call", "wait", "execRet", "done"}

\* Translate leaves the control point p
Leaves(p) == pc = p /\ pc' \in ControlPoints \ {p}

\* Translate where the goroutine that runs it is scheduled (it does not rest
\* for ever at start or at execRet, where its next statement can run), every
\* backend call returns (call) and every backoff wait ends, by its timer or
\* by the cancellation (wait); the cancellation itself may or may not come.
\* Every step of TranslateBegin, MainReturn, StrongReturn, BackendSucceeds,
\* BackendFails, TimerFires and ContextDone changes pc, so the conditions are
\* the weak fairness of these steps, written on pc.
LiveSpec ==
    /\ Init
    /\ [][Next]_vars
    /\ WF_pc(Leaves("start"))
    /\ WF_pc(Leaves("execRet"))
    /\ WF_pc(Leaves("call"))
    /\ WF_pc(Leaves("wait"))

\* ------------------------------------------------------------------------
\* Helper functions called on their own
\* ------------------------------------------------------------------------

\* error messages that hold one of the substrings of isRetryableError
RetryableMessages ==
    { <<"r", "a", "t", "e", " ", "l", "i", "m", "i", "t">>,
      <<"a", "p", "i", " ", "r", "a", "t", "e", " ", "l", "i", "m", "i", "t", " ", "h", "i", "t">>,
      <<"s", "t", "a", "t", "u", "s", " ", "4", "2", "9">>,
      <<"1", "4", "2", "9", "0">>,
      <<"t", "i", "m", "e", "o", "u", "t">>,
      <<"r", "e", "a", "d", " ", "t", "i", "m", "e", "o", "u", "t", " ", "n", "o", "w">>,
      <<"c", "o", "n", "n", "e", "c", "t", "i", "o", "n", " ", "r", "e", "f", "u", "s", "e", "d">>,
      <<"s", "t", "a", "t", "u", "s", " ", "5", "0", "3">>,
      <<"5", "0", "2", " ", "b", "a", "d", " ", "g", "a", "t", "e", "w", "a", "y">>,
      <<"e", "r", "r", "o", "r", " ", "5", "0", "0">>,
      <<"1", "5", "0", "0", "m", "s">> }

\* error messages that hold none of them
OtherMessages ==
    { <<"i", "n", "v", "a", "l", "i", "d", " ", "a", "p", "i", " ", "k", "e", "y">>,
      <<>>,
      <<"R", "a", "t", "e", " ", "L", "i", "m", "i", "t">>,
      <<"r", "a", "t", "e", " ", " ", "l", "i", "m", "i", "t">>,
      <<"r", "a", "t", "e", "l", "i", "m", "i", "t">>,
      <<"4", "2", " ", "9">>,
      <<"t", "i", "m", "e", " ", "o", "u", "t">>,
      <<"T", "i", "m", "e", "o", "u", "t">>,
      <<"c", "o", "n", "n", "e", "c", "t">>,
      <<"5", "0">>,
      <<"5", " ", "0", " ", "3">>,
      <<"s", "t", "a", "t", "u", "s", " ", "4", "0", "4">>,
      <<"u", "n", "a", "u", "t", "h", "o", "r", "i", "z", "e", "d">> }

\* the calls isRetryableError(err) of the model
ClassifyCalls ==
    { [NoCall EXCEPT !.fn = "isRetryableError", !.text = m] :
        m \in RetryableMessages \cup OtherMessages \cup BackendMessages }

\* the characters of the texts: a letter, a sentence terminator, the space
\* and the newline
TextAlphabet == {"a", ".", SP, NL}

\* longer texts: a long word between short ones, alone in a sentence, and
\* after a paragraph
LongerTexts ==
    { <<"a", " ", "a", "a", "a", " ", "a">>,
      <<"a", ".", " ", "a", "a", "a", "a", "a", ".", " ", "a">>,
      <<"a", "\n", "\n", "a", "a", "a", "a", " ", "a", "a">> }

Texts == UNION { [1..len -> TextAlphabet] : len \in 0..MaxTextLen } \cup LongerTexts

\* the calls splitIntoChunks(text, chunkSize) of the model
SplitCalls ==
    { [NoCall EXCEPT !.fn = "splitIntoChunks", !.text = t, !.n = size] :
        t \in Texts, size \in 1..MaxChunkSize }

\* hosts of request URLs; net/url admits "*" in a host and rejects "\"
Hosts ==
    { <<"l", "o", "c", "a", "l", "h", "o", "s", "t">>,
      <<"L", "o", "c", "a", "l", "H", "o", "s", "t">>,
      <<"a", "p", "i", ".", "e", "x", "a", "m", "p", "l", "e", ".", "c", "o", "m">>,
      <<"e", "x", "a", "m", "p", "l", "e", ".", "c", "o", "m">>,
      <<"b", "a", "d", "e", "x", "a", "m", "p", "l", "e", ".", "c", "o", "m">>,
      <<"o", "t", "h", "e", "r", ".", "c", "o", "m">>,
      <<"1", "0", ".", "0", ".", "0", ".", "1">>,
      <<"a", "p", "i", "*">>,
      <<"a", "p", "i", "*", "x">>,
      <<"x", "a", "p", "i", "*">>,
      <<"a", "p", "i", ".", "*">>,
      <<"a", ".", "*", ".", "b">> }

\* entries of a no_proxy list
Patterns ==
    { <<"l", "o", "c", "a", "l", "h", "o", "s", "t">>,
      <<" ", "l", "o", "c", "a", "l", "h", "o", "s", "t", " ">>,
      <<"L", "O", "C", "A", "L", "H", "O", "S", "T">>,
      <<"*">>,
      <<"*", ".", "e", "x", "a", "m", "p", "l", "e", ".", "c", "o", "m">>,
      <<"*", ".", "E", "x", "a", "m", "p", "l", "e", ".", "c", "o", "m">>,
      <<"o", "t", "h", "e", "r", ".", "c", "o", "m">>,
      <<"1", "0", ".", "0", ".", "0", ".", "1">>,
      <<>>,
      <<" ">>,
      <<"*", ".">>,
      <<"a", "p", "i", "*">>,
      <<"a", ".", "*", ".", "b">> }

NoProxyLists == UNION { [1..len -> Patterns] : len \in 0..MaxNoProxyLen }

\* the calls shouldBypassProxy(host, noProxyList) of the model
BypassCalls ==
    { [NoCall EXCEPT !.fn = "shouldBypassProxy", !.text = h, !.list = l] :
        h \in Hosts, l \in NoProxyLists }

\* proxy configurations: no URL, the schemes of the switch, other schemes and
\* a URL without scheme; with and without credentials and bypass list
ProxyConfigs ==
    { [URL |-> u, Username |-> c[1], Password |-> c[2], NoProxy |-> l] :
        u \in { EmptyURL } \cup
              { [Scheme |-> sch, Host |-> "proxy:8080"] :
                  sch \in {"http", "https", "socks5", "socks5h", "socks4", "ftp", ""} },
        c \in { <<"", "">>, <<"user", "">>, <<"user", "secret">> },
        l \in { <<>>, <<<<"l", "o", "c", "a", "l", "h", "o", "s", "t">>>> } }

\* the calls NewHTTPClient(cfg) of the model
BuildCalls ==
    { [NoCall EXCEPT !.fn = "NewHTTPClient", !.cfg = c] : c \in ProxyConfigs }

\* the ports a destination URL names: none, or the port of ollama
Ports == { <<>>, <<"1", "1", "4", "3", "4">> }

\* the requests sent through a client that NewHTTPClient built: the
\* destination's host and port, and the bypass list of the client
RouteCalls ==
    { [NoCall EXCEPT !.fn = f, !.text = h, !.port = p, !.list = l] :
        f \in {"transport.Proxy", "transport.DialContext"},
        h \in { <<"l", "o", "c", "a", "l", "h", "o", "s", "t">>,
                <<"a", "p", "i", ".", "e", "x", "a", "m", "p", "l", "e", ".", "c", "o", "m">>,
                <<"o", "t", "h", "e", "r", ".", "c", "o", "m">> },
        p \in Ports,
        l \in { <<>>,
                <<<<"l", "o", "c", "a", "l", "h", "o", "s", "t">>>>,
                <<<<"*">>>>,
                <<<<"*", ".", "e", "x", "a", "m", "p", "l", "e", ".", "c", "o", "m">>>>,
                <<<<"l", "o", "c", "a", "l", "h", "o", "s", "t">>,
                  <<"o", "t", "h", "e", "r", ".", "c", "o", "m">>>> } }

HelperCalls == ClassifyCalls \cup SplitCalls \cup BypassCalls \cup BuildCalls
                \cup RouteCalls

HelperInit ==
    /\ config = BaseConfig
    /\ req = BaseRequest
    /\ ctxDone = FALSE
    /\ pc = "helper"
    /\ client = NoClient
    /\ provider = NoProvider
    /\ chunks = <<>>
    /\ i = 0
    /\ results = <<>>
    /\ totalTokens = 0
    /\ resp = EmptyResponse
    /\ translatedChunk = <<>>
    /\ err = NoErr
    /\ retry = 0
    /\ frame = NoFrame
    /\ ret = [resp |-> EmptyResponse, err |-> NoErr]
    /\ out = [resp |-> EmptyResponse, err |-> NoErr]
    /\ hist = InitHist
    /\ called \in HelperCalls
    /\ returned = NoResult
    /\ calls = NoCalls

\* isRetryableError(err) is called and returns
ClassifyError ==
    /\ called.fn = "isRetryableError"
    /\ ~returned.done
    /\ returned' = [NoResult EXCEPT !.done = TRUE,
                       !.bool = isRetryableError(BackendError(called.text))]
    /\ UNCHANGED <<calls, inputs, ctxDone, pc, setup, locals, frame, ret, out, hist, called>>

\* splitIntoChunks(text, chunkSize) is called and returns
SplitText ==
    /\ called.fn = "splitIntoChunks"
    /\ ~returned.done
    /\ returned' = [NoResult EXCEPT !.done = TRUE,
                       !.list = splitIntoChunks(called.text, called.n)]
    /\ UNCHANGED <<calls, inputs, ctxDone, pc, setup, locals, frame, ret, out, hist, called>>

\* shouldBypassProxy(host, noProxyList) is called and returns
BypassProxy ==
    /\ called.fn = "shouldBypassProxy"
    /\ ~returned.done
    /\ returned' = [NoResult EXCEPT !.done = TRUE,
                       !.bool = shouldBypassProxy(called.text, called.list)]
    /\ UNCHANGED <<calls, inputs, ctxDone, pc, setup, locals, frame, ret, out, hist, called>>

\* NewHTTPClient(cfg) is called and returns
BuildClient ==
    /\ called.fn = "NewHTTPClient"
    /\ ~returned.done
    /\ returned' = [NoResult EXCEPT !.done = TRUE,
                       !.client = NewHTTPClient(called.cfg).client,
                       !.err = NewHTTPClient(called.cfg).err]
    /\ UNCHANGED <<calls, inputs, ctxDone, pc, setup, locals, frame, ret, out, hist, called>>

\* the client for an http proxy resolves the proxy of a request
ProxyForRequest ==
    /\ called.fn = "transport.Proxy"
    /\ ~returned.done
    /\ returned' = [NoResult EXCEPT !.done = TRUE,
                       !.bool = ProxyFuncBypasses(called.text, called.port, called.list)]
    /\ UNCHANGED <<calls, inputs, ctxDone, pc, setup, locals, frame, ret, out, hist, called>>

\* the client for a SOCKS5 proxy dials the destination of a request
DialContext ==
    /\ called.fn = "transport.DialContext"
    /\ ~returned.done
    /\ returned' = [NoResult EXCEPT !.done = TRUE,
                       !.bool = DialContextBypasses(called.text, called.port, called.list)]
    /\ UNCHANGED <<calls, inputs, ctxDone, pc, setup, locals, frame, ret, out, hist, called>>

HelperNext ==
    \/ ClassifyError
    \/ SplitText
    \/ BypassProxy
    \/ BuildClient
    \/ ProxyForRequest
    \/ DialContext

HelperSpec == HelperInit /\ [][HelperNext]_vars

\* ------------------------------------------------------------------------
\* Two calls of Translate on one Translator
\* ------------------------------------------------------------------------

\* the configurations of the Translator the two calls share
SharedConfigs ==
    { [BaseConfig EXCEPT !.Proxy = px, !.DefaultProvider = dp,
                         !.Providers = [n \in {"openai", "ollama"} |-> GoodProvider]] :
        px \in { EmptyProxyConfig, HTTPProxy, [HTTPProxy EXCEPT !.URL.Scheme = "ftp"] },
        dp \in {"openai", "ollama", "deepl"} }

\* two goroutines call Translate on the same Translator for different
\* documents; every backend call succeeds
SharedInit ==
    /\ config \in SharedConfigs
    /\ req = BaseRequest
    /\ ctxDone = FALSE
    /\ pc = "shared"
    /\ client = NoClient
    /\ provider = NoProvider
    /\ chunks = <<>>
    /\ i = 0
    /\ results = <<>>
    /\ totalTokens = 0
    /\ resp = EmptyResponse
    /\ translatedChunk = <<>>
    /\ err = NoErr
    /\ retry = 0
    /\ frame = NoFrame
    /\ ret = [resp |-> EmptyResponse, err |-> NoErr]
    /\ out = [resp |-> EmptyResponse, err |-> NoErr]
    /\ hist = InitHist
    /\ called = NoCall
    /\ returned = NoResult
    /\ \E d1 \in Docs, d2 \in Docs :
          /\ d1 # d2
          /\ calls = [NoCalls EXCEPT !.c[1] = [IdleCall EXCEPT !.pc = "create", !.text = d1],
                                     !.c[2] = [IdleCall EXCEPT !.pc = "create", !.text = d2]]

SharedUnchanged ==
    UNCHANGED <<helper, inputs, ctxDone, pc, chunks, locals, frame, ret, out, hist>>

\* line 191 of call k: client, err := t.createHTTPClient()
CreateClient(k) ==
    /\ calls.c[k].pc = "create"
    /\ LET c == createHTTPClient(config)
       IN  calls' = IF c.err # NoErr
                    THEN [calls EXCEPT !.c[k].pc = "done",
                                       !.c[k].err = Wrap("failed to create HTTP client",
                                                         0, c.err)]
                    ELSE [calls EXCEPT !.c[k].pc = "storeClient",
                                       !.c[k].client = c.client]
    /\ UNCHANGED <<client, provider>>
    /\ SharedUnchanged

\* line 195 of call k: t.client = client
StoreClient(k) ==
    /\ calls.c[k].pc = "storeClient"
    /\ client' = calls.c[k].client
    /\ calls' = [calls EXCEPT !.clientBy = k, !.c[k].pc = "get"]
    /\ UNCHANGED provider
    /\ SharedUnchanged

\* lines 197 to 205 of call k: provider.Get is given t.client as it is now
GetProvider(k) ==
    /\ calls.c[k].pc = "get"
    /\ calls' =
          IF config.DefaultProvider \notin DOMAIN config.Providers
          THEN [calls EXCEPT !.c[k].pc = "done",
                             !.c[k].err = <<Layer("provider not configured", 0, <<>>)>>]
          ELSE LET g == Get(config.DefaultProvider,
                            config.Providers[config.DefaultProvider], client)
               IN  IF g.err # NoErr
                   THEN [calls EXCEPT !.c[k].pc = "done",
                                      !.c[k].err = Wrap("failed to initialize provider",
                                                        0, g.err)]
                   ELSE [calls EXCEPT !.c[k].pc = "storeProvider",
                                      !.c[k].p = g.provider,
                                      !.c[k].clientOf = calls.clientBy]
    /\ UNCHANGED <<client, provider>>
    /\ SharedUnchanged

\* lines 206 to 213 of call k: t.provider = p, and the text is split
StoreProvider(k) ==
    /\ calls.c[k].pc = "storeProvider"
    /\ provider' = calls.c[k].p
    /\ LET cs == splitIntoChunks(calls.c[k].text, config.Settings.ChunkSize)
       IN  calls' = [calls EXCEPT !.providerBy = k,
                                  !.c[k].chunks = cs,
                                  !.c[k].i = 1,
                                  !.c[k].pc = IF cs = <<>> THEN "done" ELSE "call"]
    /\ UNCHANGED client
    /\ SharedUnchanged

\* line 328 of call k, for its chunk i: t.provider.Translate goes to the
\* backend that t.provider holds now; the read races with line 206 of the
\* other call and yields the backend of one of the two
BackendCall(k) ==
    /\ calls.c[k].pc = "call"
    /\ calls' = [calls EXCEPT !.c[k].usedOf = Append(@, calls.providerBy),
                              !.c[k].i = @ + 1,
                              !.c[k].pc = IF calls.c[k].i < Len(calls.c[k].chunks)
                                          THEN "call" ELSE "done"]
    /\ UNCHANGED <<client, provider>>
    /\ SharedUnchanged

SharedNext ==
    \E k \in 1..2 :
        \/ CreateClient(k)
        \/ StoreClient(k)
        \/ GetProvider(k)
        \/ StoreProvider(k)
        \/ BackendCall(k)

SharedSpec == SharedInit /\ [][SharedNext]_vars

\* ------------------------------------------------------------------------
\* Properties
\* ------------------------------------------------------------------------

\* the backend errors of the model whose message holds a retryable substring,
\* and the one whose message holds none
RetryableErrors == { BackendError(MSG_429), BackendError(MSG_TIMEOUT) }
FatalErrors == { BackendError(MSG_KEY) }

\* the retry budget in effect: the configured retry count, 3 for a count of 0
BudgetInEffect ==
    IF config.Settings.RetryCount = 0 THEN DefaultRetryCount
    ELSE config.Settings.RetryCount

\* the latest backend call belongs to the current activation of translateWithRetry
LatestCallIsCurrent == hist.lastOutcome.exec = hist.execId /\ hist.execCalls >= 1

\* an error that ends in the context's cancellation error
IsCancellation(e) == e # NoErr /\ e[Len(e)] = ErrCanceled[1]

\* C1: in strong mode, once a re-translation of a chunk whose first output
\* failed validation passes validation, the loop has stopped at that attempt,
\* Translate does not return the strong-validation error, and the chunk's text
\* in the results is that attempt's output.
C1_PassingRetryIsAccepted ==
    (req.StrongMode /\ hist.passedAt >= 1) =>
        /\ hist.nStrong = hist.passedAt
        /\ ~(pc = "done" /\ out.err = StrongValidationError(req.StrongRetries))
        /\ Len(results) >= i
        /\ results[i] = ret.resp.Text

\* C2: in strong mode with StrongRetries >= 0, when the first output of a
\* chunk and every output of its re-translations fail validation, exactly
\* StrongRetries re-translation
\* requests were made through translateWithRetry when Translate returns, and
\* it returns the strong-validation error naming StrongRetries and no text.
C2_ExactlyNRetranslations ==
    (pc = "done" /\ req.StrongMode /\ req.StrongRetries >= 0
        /\ ~hist.firstOK /\ hist.passedAt = 0) =>
        /\ hist.nStrong = req.StrongRetries
        /\ out.err = <<[kind |-> "strong validation failed after retries",
                        n |-> req.StrongRetries, msg |-> <<>>]>>
        /\ out.resp = EmptyResponse

C2_Witness ==
    /\ pc = "done"
    /\ req.StrongMode
    /\ ~hist.firstOK
    /\ hist.passedAt = 0
    /\ req.StrongRetries = 2
    /\ hist.nStrong = 2
    /\ hist.nValidate = 3

\* C3 as stated: one activation of translateWithRetry makes at most
\* RetryCount + 1 backend calls for every configured RetryCount >= 0.
C3_AtMostConfiguredPlusOne ==
    hist.execCalls <= config.Settings.RetryCount + 1

\* C3 amended: one activation makes at most n + 1 backend calls, where n is
\* the configured retry count when it is at least 1 and 3 when it is 0, and
\* every attempt after attempt 0 follows a retryable failure of the attempt
\* before it.
C3_AtMostBudgetPlusOne ==
    /\ hist.execCalls <= BudgetInEffect + 1
    /\ (pc \in {"wait", "call"} /\ frame.attempt >= 1) =>
           /\ LatestCallIsCurrent
           /\ hist.lastOutcome.attempt = frame.attempt - 1
           /\ ~hist.lastOutcome.ok
           /\ hist.lastOutcome.err \in RetryableErrors

C3_Witness ==
    /\ config.Settings.RetryCount = 0
    /\ hist.execCalls = 4
    /\ pc = "execRet"

\* C4: when an attempt fails with an error that is not retryable,
\* translateWithRetry returns that error unchanged at once: no wait and no
\* backend call follow it, whatever retry budget remains.
C4_FatalReturnedAtOnce ==
    (LatestCallIsCurrent /\ ~hist.lastOutcome.ok
        /\ hist.lastOutcome.err \in FatalErrors) =>
        /\ pc \in {"execRet", "done"}
        /\ ret = [resp |-> EmptyResponse, err |-> hist.lastOutcome.err]
        /\ hist.execCalls = hist.lastOutcome.attempt + 1
        /\ Len(hist.execWaits) = hist.lastOutcome.attempt

C4_Witness ==
    /\ pc = "execRet"
    /\ LatestCallIsCurrent
    /\ hist.lastOutcome.err \in FatalErrors
    /\ hist.lastOutcome.attempt = 1
    /\ frame.retryCount = 3
    /\ ret.err = BackendError(MSG_KEY)

\* C5: when attempt 0 and every further attempt of the budget fail with
\* retryable errors, translateWithRetry returns no response and an error that
\* wraps the error of the last attempt and names the budget.
C5_ExhaustionWrapsLast ==
    (pc = "execRet" /\ LatestCallIsCurrent /\ ~hist.lastOutcome.ok
        /\ hist.lastOutcome.err \in RetryableErrors
        /\ hist.lastOutcome.attempt = BudgetInEffect) =>
        /\ ret.resp = EmptyResponse
        /\ ret.err = <<[kind |-> "failed after retries", n |-> BudgetInEffect,
                        msg |-> <<>>]>> \o hist.lastOutcome.err
        /\ hist.execCalls = BudgetInEffect + 1

C5_Witness ==
    /\ pc = "execRet"
    /\ config.Settings.RetryCount = 1
    /\ hist.execCalls = 2
    /\ ~hist.lastOutcome.ok
    /\ hist.lastOutcome.err = BackendError(MSG_TIMEOUT)
    /\ ret.err = <<[kind |-> "failed after retries", n |-> 1, msg |-> <<>>]>>
                    \o BackendError(MSG_TIMEOUT)

\* C6: when the context is cancelled during the backoff before attempt k >= 1,
\* translateWithRetry returns the cancellation error and makes no further
\* backend call.
C6_CancelDuringBackoff ==
    (hist.cancel.pc = "wait" /\ hist.cancel.exec = hist.execId) =>
        /\ pc \in {"wait", "execRet", "done"}
        /\ hist.execCalls = hist.cancel.execCalls
        /\ pc # "wait" => ret = [resp |-> EmptyResponse, err |-> ErrCanceled]

C6_Witness ==
    /\ hist.cancel.pc = "wait"
    /\ hist.cancel.exec = hist.execId
    /\ pc = "execRet"
    /\ frame.attempt = 1
    /\ frame.retryCount = 3
    /\ ret.err = ErrCanceled

\* C7: when the context is cancelled during a backoff of Translate, a backoff
\* inside a strong-mode re-translation included, Translate returns a
\* cancellation error and starts no re-translation after the cancellation.
C7_CancelEndsTranslate ==
    (pc = "done" /\ hist.cancel.pc = "wait") =>
        /\ IsCancellation(out.err)
        /\ hist.nStrong = hist.cancel.nStrong

\* C8: the chunks are sent in their order, a backend call for chunk i is made
\* only once the chunks before it are accepted, and the text returned is the
\* accepted outputs in that order with one "\n\n" between neighbours.
RECURSIVE AcceptedJoined(_)
AcceptedJoined(n) ==
    IF n = 0 THEN <<>>
    ELSE IF n = 1 THEN hist.accepted[1].resp.Text
    ELSE AcceptedJoined(n - 1) \o <<NL, NL>> \o hist.accepted[n].resp.Text

C8_InOrderAndJoined ==
    /\ \A k \in 1..Len(hist.accepted) : hist.accepted[k].chunk = k
    /\ pc \in {"call", "wait"} =>
           /\ Len(hist.accepted) = i - 1
           /\ frame.req.Text = chunks[i]
    /\ (pc = "done" /\ out.err = NoErr) =>
           /\ Len(hist.accepted) = Len(chunks)
           /\ out.resp.Text = AcceptedJoined(Len(chunks))

C8_Witness ==
    /\ pc = "done"
    /\ out.err = NoErr
    /\ Len(chunks) = 3
    /\ out.resp.Text = OUT_OK \o <<NL, NL>> \o OUT_EN \o <<NL, NL>> \o OUT_OK

\* C9: when a chunk fails for good, Translate returns an error with an empty
\* response, and no backend call is made for a later chunk.
C9_NoPartialOutput ==
    (pc = "done" /\ out.err # NoErr) =>
        /\ out.resp = [Text |-> <<>>, TokensUsed |-> 0]
        /\ hist.lastCallChunk <= hist.failedChunk
        /\ ~ENABLED (BackendSucceeds \/ BackendFails)

C9_Witness ==
    /\ pc = "done"
    /\ out.err # NoErr
    /\ Len(chunks) = 3
    /\ hist.failedChunk = 2
    /\ Len(results) = 1
    /\ out.resp = [Text |-> <<>>, TokensUsed |-> 0]

\* C10: when a backend call succeeds at attempt j, translateWithRetry returns
\* that response and makes no further call; for a one-chunk text without
\* strong mode whose first call succeeds, Translate returns that text and
\* usage after one backend call and no wait.
C10_SuccessReturned ==
    /\ (LatestCallIsCurrent /\ hist.lastOutcome.ok) =>
           /\ pc \in {"execRet", "done"}
           /\ ret = [resp |-> hist.lastOutcome.resp, err |-> NoErr]
           /\ hist.execCalls = hist.lastOutcome.attempt + 1
    /\ (pc = "done" /\ Len(chunks) = 1 /\ ~req.StrongMode
            /\ hist.lastOutcome.ok /\ hist.lastOutcome.attempt = 0) =>
           /\ out = [resp |-> hist.lastOutcome.resp, err |-> NoErr]
           /\ hist.nCalls = 1
           /\ hist.execWaits = <<>>

C10_Witness ==
    /\ pc = "done"
    /\ Len(chunks) = 1
    /\ ~req.StrongMode
    /\ hist.nCalls = 1
    /\ out = [resp |-> [Text |-> OUT_OK, TokensUsed |-> 5], err |-> NoErr]

\* C11: a successful Translate returns as TokensUsed the sum, over the chunks,
\* of the usage of the backend response whose text was accepted for the chunk;
\* the attempts that failed inside translateWithRetry add nothing. A successful
\* call never holds an accepted re-translation: once the first output of a
\* chunk fails validation the call ends in an error, so every accepted text is
\* the chunk's first validated output.
RECURSIVE AcceptedUsage(_)
AcceptedUsage(n) ==
    IF n = 0 THEN 0 ELSE AcceptedUsage(n - 1) + hist.accepted[n].from.TokensUsed

OccursIn(sub, s) ==
    \E k \in 1..(Len(s) - Len(sub) + 1) : SubSeq(s, k, k + Len(sub) - 1) = sub

C12_Substrings ==
    { <<"r", "a", "t", "e", " ", "l", "i", "m", "i", "t">>,
      <<"4", "2", "9">>,
      <<"t", "i", "m", "e", "o", "u", "t">>,
      <<"c", "o", "n", "n", "e", "c", "t", "i", "o", "n">>,
      <<"5", "0", "3">>,
      <<"5", "0", "2">>,
      <<"5", "0", "0">> }

C12_RetryableIffSubstring ==
    (returned.done /\ called.fn = "isRetryableError") =>
        /\ returned.bool <=> (\E sub \in C12_Substrings : OccursIn(sub, called.text))
        /\ called.text \in RetryableMessages => returned.bool
        /\ called.text \in OtherMessages => ~returned.bool
        /\ called.text = MSG_KEY => ~returned.bool

C12_Witness ==
    /\ returned.done
    /\ called.fn = "isRetryableError"
    /\ called.text = <<"e", "r", "r", "o", "r", " ", "5", "0", "0">>
    /\ returned.bool

\* C13 as stated: no wait precedes attempt 0 and the wait before attempt k
\* is the configured base delay times 2^(k-1).
C13_WaitsDoubleFromConfigured ==
    /\ pc = "call" => Len(hist.execWaits) = frame.attempt
    /\ \A k \in 1..Len(hist.execWaits) :
           hist.execWaits[k] = config.Settings.RetryDelay * 2^(k - 1)

\* C13 amended: no wait precedes attempt 0, exactly one wait precedes every
\* later attempt, and the wait before attempt k is d * 2^(k-1) seconds, where
\* d is the configured retry delay when it is not 0 and 1 when it is 0; with a
\* delay of 1 and four retries the waits are 1, 2, 4, 8.
C13_WaitsDoubleFromDelayInEffect ==
    LET d == IF config.Settings.RetryDelay = 0 THEN 1 ELSE config.Settings.RetryDelay
    IN  /\ pc = "call" => Len(hist.execWaits) = frame.attempt
        /\ pc = "wait" => Len(hist.execWaits) = frame.attempt - 1
        /\ hist.execCalls = 0 => hist.execWaits = <<>>
        /\ \A k \in 1..Len(hist.execWaits) : hist.execWaits[k] = d * 2^(k - 1)
        /\ (config.Settings.RetryDelay = 1 /\ Len(hist.execWaits) = 4) =>
               hist.execWaits = <<1, 2, 4, 8>>

C13_Witness ==
    /\ config.Settings.RetryCount = 4
    /\ config.Settings.RetryDelay = 1
    /\ pc = "call"
    /\ frame.attempt = 4
    /\ hist.execWaits = <<1, 2, 4, 8>>

\* the call of splitIntoChunks has returned
SplitReturned == returned.done /\ called.fn = "splitIntoChunks"

\* C14: for a text no longer than the chunk size, splitIntoChunks returns
\* exactly one chunk, the text with its leading and trailing white space
\* trimmed.
C14_SingleTrimmedSegment ==
    (SplitReturned /\ Len(called.text) <= called.n) =>
        returned.list = <<TrimSpace(called.text)>>

\* C15: no chunk that splitIntoChunks returns is empty after trimming.
C15_NoEmptySegment ==
    SplitReturned =>
        \A k \in 1..Len(returned.list) : TrimSpace(returned.list[k]) # <<>>

\* the text without its white space
StripSpace(text) == SelectSeq(text, LAMBDA c : ~IsSpace(c))

\* the chunks one after the other
RECURSIVE Concat(_)
Concat(parts) == IF parts = <<>> THEN <<>> ELSE Head(parts) \o Concat(Tail(parts))

\* the white-space-delimited words of text: the maximal runs without white space
WordsOf(text) ==
    LET starts == { k \in 1..Len(text) :
                      ~IsSpace(text[k]) /\ (k = 1 \/ IsSpace(text[k - 1])) }
        EndOf(k) == CHOOSE e \in k..Len(text) :
                      /\ \A j \in k..e : ~IsSpace(text[j])
                      /\ (e = Len(text) \/ IsSpace(text[e + 1]))
    IN  { SubSeq(text, k, EndOf(k)) : k \in starts }

\* C16: when every white-space-delimited word of the text is shorter than the
\* chunk size, every chunk that splitIntoChunks returns is at most chunk size
\* long.
C16_SegmentsWithinBudget ==
    (SplitReturned /\ \A w \in WordsOf(called.text) : Len(w) < called.n) =>
        \A k \in 1..Len(returned.list) : Len(returned.list[k]) <= called.n

\* a text of short words and a long sentence is cut in the word loop
C16_Witness ==
    /\ SplitReturned
    /\ called.text = <<"a", "a", " ", "a", " ", "a">>
    /\ called.n = 3
    /\ returned.list = <<<<"a", "a">>, <<"a", " ", "a">>>>

\* C17: the chunks that splitIntoChunks returns, put one after the other and
\* stripped of white space, are the text stripped of white space.
C17_NonSpaceContentKept ==
    SplitReturned =>
        StripSpace(Concat(returned.list)) = StripSpace(called.text)

\* a text cut at a sentence end
C17_Witness ==
    /\ SplitReturned
    /\ called.text = <<"a", ".", " ", "a", ".", "a">>
    /\ called.n = 3
    /\ returned.list = <<<<"a", ".">>, <<"a", ".", "a">>>>

\* C18: a word longer than the chunk size is returned whole as a chunk of its
\* own: every chunk that holds such a word is that word alone, and every
\* such word of the text is a chunk.
C18_LongWordAlone ==
    SplitReturned =>
        /\ \A k \in 1..Len(returned.list) :
               \A w \in WordsOf(returned.list[k]) :
                   Len(w) > called.n => returned.list[k] = w
        /\ \A w \in WordsOf(called.text) :
               Len(w) > called.n => \E k \in 1..Len(returned.list) : returned.list[k] = w

\* a long word between two short ones
C18_Witness ==
    /\ SplitReturned
    /\ called.text = <<"a", " ", "a", "a", "a", " ", "a">>
    /\ called.n = 2
    /\ returned.list = <<<<"a">>, <<"a", "a", "a">>, <<"a">>>>

\* the call of shouldBypassProxy has returned
BypassReturned == returned.done /\ called.fn = "shouldBypassProxy"

\* pattern holds "*" only as the whole pattern or in a leading "*."
StarOnlyLeading(q) ==
    \A k \in 1..Len(q) :
        q[k] = "*" => (k = 1 /\ (Len(q) = 1 \/ q[2] = "."))

\* the three rules of the bypass decision for host h and pattern q
MatchesByRule(h, q) ==
    \/ q = <<"*">>
    \/ (Len(q) >= 2 /\ q[1] = "*" /\ q[2] = "."
          /\ Len(h) >= Len(q) - 2
          /\ SubSeq(h, Len(h) - Len(q) + 3, Len(h)) = SubSeq(q, 3, Len(q)))
    \/ ((\A k \in 1..Len(q) : q[k] # "*") /\ q = h)

\* C19 as stated: the decision is true exactly when, after lowercasing the
\* host and each pattern, some pattern is "*", or is "*.S" and the host ends
\* with S, or holds no "*" and equals the host.
C19_BypassExactlyByRule ==
    BypassReturned =>
        (returned.bool <=>
            \E k \in 1..Len(called.list) :
                MatchesByRule(ToLower(called.text), ToLower(called.list[k])))

\* C19 amended: for a list whose patterns hold "*" only as the whole pattern
\* or in a leading "*.", the decision is true exactly when, after lowercasing
\* the host and trimming and lowercasing each pattern, some non-empty pattern
\* is "*", or is "*.S" and the host ends with S, or holds no "*" and equals
\* the host; it is false for the empty list.  localhost with [localhost] and
\* api.example.com with [*.example.com] bypass, api.example.com with
\* [other.com] does not.
C19_BypassByRuleAfterTrim ==
    (BypassReturned
        /\ \A k \in 1..Len(called.list) :
               StarOnlyLeading(ToLower(TrimSpace(called.list[k])))) =>
        /\ returned.bool <=>
              \E k \in 1..Len(called.list) :
                  /\ TrimSpace(called.list[k]) # <<>>
                  /\ MatchesByRule(ToLower(called.text),
                                   ToLower(TrimSpace(called.list[k])))
        /\ called.list = <<>> => ~returned.bool
        /\ (called.text = <<"l", "o", "c", "a", "l", "h", "o", "s", "t">> /\ called.list = <<<<"l", "o", "c", "a", "l", "h", "o", "s", "t">>>>) => returned.bool
        /\ (called.text = <<"a", "p", "i", ".", "e", "x", "a", "m", "p", "l", "e", ".", "c", "o", "m">> /\ called.list = <<<<"*", ".", "e", "x", "a", "m", "p", "l", "e", ".", "c", "o", "m">>>>) => returned.bool
        /\ (called.text = <<"a", "p", "i", ".", "e", "x", "a", "m", "p", "l", "e", ".", "c", "o", "m">> /\ called.list = <<<<"o", "t", "h", "e", "r", ".", "c", "o", "m">>>>) => ~returned.bool

\* a host in mixed case is bypassed by a padded pattern and a domain pattern
C19_Witness ==
    /\ BypassReturned
    /\ called.text = <<"L", "o", "c", "a", "l", "H", "o", "s", "t">>
    /\ called.list = <<<<" ", "l", "o", "c", "a", "l", "h", "o", "s", "t", " ">>, <<"*", ".", "e", "x", "a", "m", "p", "l", "e", ".", "c", "o", "m">>>>
    /\ returned.bool

\* pattern holds "*" somewhere other than as a leading "*."
StarElsewhere(q) ==
    /\ q # <<"*">>
    /\ \E k \in 1..Len(q) : q[k] = "*" /\ ~(k = 1 /\ Len(q) >= 2 /\ q[2] = ".")

\* C20: a pattern that holds "*" somewhere other than as a leading "*."
\* bypasses every host that starts with or ends with the pattern text as it
\* is written, and, alone in the list, no other host.
C20_StarPatternMatchesLiteral ==
    BypassReturned =>
        /\ \A k \in 1..Len(called.list) :
               LET q == ToLower(TrimSpace(called.list[k]))
                   h == ToLower(called.text)
               IN  (StarElsewhere(q) /\ (HasPrefix(h, q) \/ HasSuffix(h, q))) =>
                       returned.bool
        /\ (Len(called.list) = 1
              /\ StarElsewhere(ToLower(TrimSpace(called.list[1])))
              /\ returned.bool) =>
               LET q == ToLower(TrimSpace(called.list[1]))
                   h == ToLower(called.text)
               IN  HasPrefix(h, q) \/ HasSuffix(h, q)

\* Translate has called provider.Get: the transport was built and the
\* configuration holds the backend selected
GetCalled ==
    /\ pc # "start"
    /\ pc # "helper"
    /\ config.DefaultProvider \in DOMAIN config.Providers
    /\ ~(pc = "done" /\ out.err # NoErr
          /\ out.err[1].kind = "failed to create HTTP client")

\* C21: provider.Get of a name that is not registered returns the
\* unknown-provider error and calls no constructor; of a registered name it
\* calls the constructor once and then ValidateConfig once, and when
\* ValidateConfig fails it returns that error and no backend, and Get is not
\* called again.
C21_GetResolvesOrFails ==
    LET name == config.DefaultProvider
        pcfg == config.Providers[name]
    IN  GetCalled =>
            /\ hist.nGet = 1
            /\ name \notin {"openai", "ollama"} =>
                  /\ hist.getSteps = <<>>
                  /\ provider = NoProvider
                  /\ pc = "done"
                  /\ out.resp = EmptyResponse
                  /\ out.err = <<[kind |-> "failed to initialize provider", n |-> 0,
                                  msg |-> <<>>],
                                 [kind |-> "unknown provider", n |-> 0, msg |-> <<>>]>>
            /\ name \in {"openai", "ollama"} =>
                  /\ hist.getSteps = <<"factory", "ValidateConfig">>
                  /\ (name = "openai" /\ pcfg.APIKey = "") =>
                        /\ provider = NoProvider
                        /\ pc = "done"
                        /\ hist.nCalls = 0
                        /\ out.resp = EmptyResponse
                        /\ out.err = <<[kind |-> "failed to initialize provider",
                                        n |-> 0, msg |-> <<>>],
                                       [kind |-> "API key is required", n |-> 0,
                                        msg |-> <<>>]>>
                  /\ (name = "ollama" \/ pcfg.APIKey # "") =>
                        /\ provider.name = name
                        /\ provider.httpClient = client

\* a registered backend whose configuration lacks the API key
C21_Witness ==
    /\ GetCalled
    /\ config.DefaultProvider = "openai"
    /\ config.Providers["openai"].APIKey = ""
    /\ hist.getSteps = <<"factory", "ValidateConfig">>
    /\ pc = "done"
    /\ provider = NoProvider

\* the call of NewHTTPClient has returned
BuildReturned == returned.done /\ called.fn = "NewHTTPClient"

C23_CallsUseOwnHandles ==
    \A k \in 1..2 :
        /\ calls.c[k].clientOf \in {0, k}
        /\ \A j \in 1..Len(calls.c[k].usedOf) : calls.c[k].usedOf[j] = k

\* C24: when the translateWithRetry call of a re-translation returns a fatal
\* error or the exhaustion error, the strong-retry loop goes on: the failure
\* has used up one slot, the next slot is requested if one remains, and
\* otherwise Translate returns the strong-validation error.
C24_FailedSlotIsSkipped ==
    [][(/\ pc = "execRet"
        /\ frame.caller = "strong"
        /\ ret.err # NoErr
        /\ ~IsCancellation(ret.err)
        /\ pc' # pc) =>
            /\ hist.nStrong = retry
            /\ IF retry < req.StrongRetries
               THEN /\ retry' = retry + 1
                    /\ hist'.nStrong = hist.nStrong + 1
                    /\ frame'.caller = "strong"
                    /\ pc' = "call"
               ELSE /\ pc' = "done"
                    /\ out'.resp = EmptyResponse
                    /\ out'.err = <<[kind |-> "strong validation failed after retries",
                                     n |-> req.StrongRetries, msg |-> <<>>]>>]_vars

\* the second re-translation is in work after the first one failed for good
C24_Witness ==
    /\ pc = "call"
    /\ frame.caller = "strong"
    /\ retry = 2
    /\ hist.nStrong = 2
    /\ hist.lastOutcome.exec = hist.execId - 1
    /\ ~hist.lastOutcome.ok
    /\ hist.lastOutcome.err \in FatalErrors

\* C25: in strong mode every output that is accepted for a chunk is one for
\* which Validator.Validate returned isValid = true; an output that Validate
\* failed is not accepted, whatever fragments it lists.
C25_AcceptedOnlyIfValid ==
    req.StrongMode =>
        \A k \in 1..Len(hist.accepted) :
            Validate(config.StrongValidation, hist.accepted[k].from.Text,
                     req.SourceLang).isValid

\* C26: when the request's StrongMode is not set, validateTranslation is not
\* called and no re-translation is requested: translateWithRetry is called
\* once per chunk, and the chunk's text in the results is the output of that
\* call.
C26_NoValidationWithoutStrongMode ==
    (~req.StrongMode /\ pc \notin {"start", "helper", "shared"}) =>
        /\ hist.nValidate = 0
        /\ hist.nStrong = 0
        /\ frame.caller # "strong"
        /\ hist.execId = i
        /\ (pc = "done" /\ out.err = NoErr) => hist.execId = Len(chunks)
        /\ Len(results) = Len(hist.accepted)
        /\ \A k \in 1..Len(hist.accepted) :
               /\ hist.accepted[k].from \in Responses
               /\ results[k] = hist.accepted[k].from.Text

\* three chunks are translated without strong mode, the first output being
\* one the validator would flag
C26_Witness ==
    /\ ~req.StrongMode
    /\ pc = "done"
    /\ out.err = NoErr
    /\ Len(chunks) = 3
    /\ hist.execId = 3
    /\ results[1] = OUT_EN

\* C27: every call of translateWithRetry calls the backend at least once
\* before it returns, and no wait precedes the first call, for every retry
\* count and retry delay of the configuration.
C27_BackendCalledBeforeReturn ==
    /\ (pc = "execRet") => hist.execCalls >= 1
    /\ (pc = "call" /\ hist.execCalls = 0) => hist.execWaits = <<>>

\* the proxy configuration Translate is to use: the override of the selected
\* backend when it has a URL, the global one otherwise
ProxyInEffect ==
    LET name == config.DefaultProvider
    IN  IF name \in DOMAIN config.Providers /\ config.Providers[name].Proxy.URL # EmptyURL
        THEN config.Providers[name].Proxy
        ELSE config.Proxy

SupportedSchemes == {"http", "https", "socks5", "socks5h"}

\* Translate is past its set-up
SetUpDone == pc \notin {"start", "helper", "shared"}

\* C28: Translate calls createHTTPClient once and provider.Get at most once,
\* before any backend call, and every backend call goes to the provider that
\* Get returned, which holds the client that was built; the client is built
\* from the proxy override of the selected backend when the override has a
\* URL and from the global proxy otherwise, and its URL, credentials and
\* bypass list all come from that one configuration.
C28_OneTransportOneBackend ==
    /\ pc = "start" => (hist.nCalls = 0 /\ hist.nCreate = 0 /\ hist.nGet = 0)
    /\ SetUpDone =>
        /\ hist.nCreate = 1
        /\ hist.nGet <= 1
        /\ hist.nCalls >= 1 => hist.nGet = 1
        /\ hist.usedProviders \subseteq {provider}
        /\ hist.nCalls >= 1 =>
              /\ provider # NoProvider
              /\ provider.name = config.DefaultProvider
              /\ provider.httpClient = client
        /\ IF ProxyInEffect.URL = EmptyURL
           THEN /\ client.kind = "direct"
                /\ client.proxy = EmptyProxyConfig
           ELSE IF ProxyInEffect.URL.Scheme \in SupportedSchemes
           THEN /\ client.kind = (IF ProxyInEffect.URL.Scheme \in {"http", "https"}
                                  THEN "http" ELSE "socks5")
                /\ client.proxy = ProxyInEffect
                /\ client.auth = (ProxyInEffect.Username # ""
                                    /\ ProxyInEffect.Password # "")
           ELSE /\ client = NoClient
                /\ hist.nGet = 0
                /\ hist.nCalls = 0
                /\ pc = "done"
                /\ out.err # NoErr

\* the backend has an override with a URL and the global proxy has a URL too:
\* three chunks are sent through the client of the override
C28_Witness ==
    /\ pc = "done"
    /\ out.err = NoErr
    /\ config.Proxy = HTTPProxy
    /\ config.Providers[config.DefaultProvider].Proxy = SOCKSProxy
    /\ client.kind = "socks5"
    /\ client.proxy = SOCKSProxy
    /\ hist.nCalls >= 1
    /\ hist.usedProviders = {provider}

\* a request was routed by a client that NewHTTPClient built
RouteReturned ==
    returned.done /\ called.fn \in {"transport.Proxy", "transport.DialContext"}

\* C29: for one bypass list and one destination, the client for an http
\* proxy and the client for a SOCKS5 proxy take the same bypass decision, and
\* the decision is the one for the destination's host name, whether or not
\* the destination names a port.
C29_SameDecisionByHostName ==
    RouteReturned =>
        /\ returned.bool = ProxyFuncBypasses(called.text, called.port, called.list)
        /\ returned.bool = DialContextBypasses(called.text, called.port, called.list)
        /\ returned.bool = shouldBypassProxy(called.text, called.list)

Max0(n) == IF n < 0 THEN 0 ELSE n

\* C30 as stated: Translate makes at most |S| * (1 + strongRetries) * (R + 1)
\* backend calls, S the chunks and R the retry count in effect.
C30_CallsWithinStatedBound ==
    hist.nCalls <= Len(chunks) * (1 + req.StrongRetries) * (BudgetInEffect + 1)

\* C30 amended: every Translate call returns, provided each backend call
\* returns and each backoff wait ends, and it makes at most
\* |S| * (1 + max(strongRetries, 0)) * max(R + 1, 0) backend calls, S the
\* chunks and R the retry count in effect.
C30_TerminatesWithinBound ==
    /\ <>(pc = "done")
    /\ [](hist.nCalls <= Len(chunks) * (1 + Max0(req.StrongRetries))
                                     * Max0(BudgetInEffect + 1))

\* one chunk in strong mode, two strong retries and one retry: every
\* activation of translateWithRetry uses both its attempts, six calls in all
C30_Witness ==
    /\ pc = "done"
    /\ req.StrongMode
    /\ req.StrongRetries = 2
    /\ config.Settings.RetryCount = 1
    /\ Len(chunks) = 1
    /\ hist.nCalls = 6

====
